---- MODULE Spec2Model ----
(***************************************************************************)
(* A model of ChatService (the streaming chat-completion client): the      *)
(* registry of abort controllers, sendMessage with its compatibility       *)
(* retry loop, the server-sent-events stream decoder with its think-tag    *)
(* scanner and tool-call accumulator, the non-streaming response handler   *)
(* and abort.                                                              *)
(*                                                                         *)
(* Representation.  A JavaScript string that the code scans character by   *)
(* character (message content, model names) is a sequence of one-character *)
(* strings.  A JavaScript scalar that the code only tests and copies (an   *)
(* option value, a body field) is the text of its literal: "undefined",    *)
(* "null", "0", "-1", "low".  A response body is a sequence of atoms, the  *)
(* pieces a network read can cut it into: the prefix "data: ", the         *)
(* terminator "[DONE]", a newline, a carriage return, the text of one JSON *)
(* object (carried parsed in field v) and text that is not JSON.           *)
(***************************************************************************)
EXTENDS Integers, Sequences, FiniteSets, TLC

VARIABLES
    nreq,              \* number of sendMessage calls made so far
    abortControllers,  \* this.abortControllers: key -> request whose controller is registered (0: none)
    aborted,           \* abortController.signal.aborted of each request's controller
    key,               \* requestId of each call
    stream,            \* options.stream of each call
    args,              \* history: the messages, the options and the settings of each call
    pc,                \* the await each call is suspended at
    requestBody,       \* requestBody of each call (mutated by the retry loop)
    attempts,          \* attempts of each call
    startedAt,         \* requestStartTime of each call
    response,          \* the Response each call holds
    wire,              \* the part of the response body not yet delivered by a read
    dec,               \* the locals of handleStreamResponse of each call
    calls,             \* the callbacks each call has invoked, in order
    outcome,           \* how the promise of each call settled
    handler,           \* how the promise of the response handler of each call settled
    sent,              \* history: the body of every fetch a call issued
    got,               \* history: the status and the error text of every response a call received
    abortedBy,         \* history: the operation that set the abort signal of each call
    delivered,         \* history: the response body atoms delivered to a call so far
    now                \* Date.now()

vars == <<nreq, abortControllers, aborted, key, stream, args, pc, requestBody, attempts,
          startedAt, response, wire, dec, calls, outcome, handler, sent, got, abortedBy,
          delivered, now>>

----------------------------------------------------------------------------
(* Bounds *)

MaxReq == 3        \* sendMessage calls in one behaviour of SpecSupersede
MaxDeltas == 3     \* content deltas a streamed content string is cut into
MaxRead == 3       \* atoms one network read delivers at most
MaxCallbacks == 3  \* callbacks of one handler run from inside which abort may be called
MaxNow == 11       \* the clock (Date.now(), in milliseconds) stops here

Rid == 1..MaxReq

----------------------------------------------------------------------------
(* JavaScript strings as sequences of characters *)

Undefined == "undefined"
Null == "null"

THINK_OPEN == <<"<", "t", "h", "i", "n", "k", ">">>
THINK_CLOSE == <<"<", "/", "t", "h", "i", "n", "k", ">">>

\* s.startsWith(t, i - 1)
MatchAt(s, t, i) ==
    /\ i + Len(t) - 1 <= Len(s)
    /\ \A j \in 1..Len(t) : s[i + j - 1] = t[j]

\* s.indexOf(t) + 1, and 0 when t does not occur in s
IndexOf(s, t) ==
    LET hits == {i \in 1..Len(s) : MatchAt(s, t, i)}
    IN IF hits = {} THEN 0 ELSE CHOOSE i \in hits : \A j \in hits : i <= j

\* s.includes(t)
Includes(s, t) == IndexOf(s, t) # 0

\* s.split(sep), for a non-empty separator
RECURSIVE Split(_, _)
Split(s, sep) ==
    LET i == IndexOf(s, sep)
    IN IF i = 0
       THEN <<s>>
       ELSE <<SubSeq(s, 1, i - 1)>> \o Split(SubSeq(s, i + Len(sep), Len(s)), sep)

\* parts[i - 1] || ''
PartOr(parts, i) == IF Len(parts) >= i THEN parts[i] ELSE <<>>

\* What String.prototype.trim removes: the WhiteSpace and LineTerminator code
\* points tab, line feed, vertical tab, form feed, carriage return, space,
\* no-break space, U+1680 and the byte order mark. The other space separators
\* (U+2000 to U+200A, U+202F, U+205F, U+3000) and the line and paragraph
\* separators (U+2028, U+2029), which trim removes too, cannot be written in a
\* string here and so occur in no string of the model.
WhiteSpace ==
    {"\t", "\n", "", "\f", "\r", " ", " ", " ", "﻿"}

RECURSIVE TrimStart(_)
TrimStart(s) == IF s # <<>> /\ Head(s) \in WhiteSpace THEN TrimStart(Tail(s)) ELSE s

RECURSIVE TrimEnd(_)
TrimEnd(s) ==
    IF s # <<>> /\ s[Len(s)] \in WhiteSpace THEN TrimEnd(SubSeq(s, 1, Len(s) - 1)) ELSE s

\* Mutation of Trim: nothing is removed
TrimNothing(s) == s

\* s.trim()
Trim(s) == TrimEnd(TrimStart(s))

RECURSIVE Flatten(_)
Flatten(ss) == IF ss = <<>> THEN <<>> ELSE Head(ss) \o Flatten(Tail(ss))

----------------------------------------------------------------------------
(* Values carried by a response *)

NoTimings == [def |-> FALSE, prompt_n |-> 0, prompt_ms |-> 0, predicted_n |-> 0, predicted_ms |-> 0]
NoUsage == [def |-> FALSE, prompt_tokens |-> 0, completion_tokens |-> 0]
NoFunction == [def |-> FALSE, name |-> "", arguments |-> <<>>]

\* ApiChatCompletionStreamChunk: one parsed `data: ` payload. An absent string
\* field is the empty string, an absent object has def = FALSE.
Chunk0 ==
    [object |-> "", hasChoices |-> TRUE, model |-> <<>>, deltaModel |-> <<>>,
     messageModel |-> <<>>, content |-> <<>>, reasoning |-> <<>>,
     reasoning_content |-> <<>>, tool_calls |-> <<>>, timings |-> NoTimings,
     usage |-> NoUsage, finish_reason |-> ""]

\* The atoms of a response body
Pre == [t |-> "data: ", v |-> Chunk0]
DoneTok == [t |-> "[DONE]", v |-> Chunk0]
NL == [t |-> "\n", v |-> Chunk0]
CR == [t |-> "\r", v |-> Chunk0]
Junk == [t |-> "junk", v |-> Chunk0]
Json(c) == [t |-> "json", v |-> c]

DataLine(c) == <<Pre, Json(c), NL>>
DoneLine == <<Pre, DoneTok, NL>>

----------------------------------------------------------------------------
(* Errors *)

\* An Error: its name, its message and the substrings of the message the code
\* searches for.
Err(name, message, has) == [name |-> name, message |-> message, has |-> has]
NoError == Err("", "", {})
AbortError == Err("AbortError", "The operation was aborted", {})

----------------------------------------------------------------------------
(* handleStreamResponse: the locals and the callbacks *)

\* The locals of handleStreamResponse at its first read
Dec0(t) ==
    [chunk |-> <<>>, aggregatedContent |-> <<>>, fullReasoningContent |-> <<>>,
     aggregatedToolCalls |-> <<>>, lastTimings |-> NoTimings, streamFinished |-> FALSE,
     modelEmitted |-> FALSE, firstValidChunkEmitted |-> FALSE, toolCallIndexOffset |-> 0,
     hasOpenToolCallBatch |-> FALSE, thinkBuffer |-> <<>>, insideThinkTag |-> FALSE,
     startTime |-> t, firstTokenTime |-> 0, usageData |-> NoUsage]

\* One run of a handler between two awaits: the locals d, the callbacks invoked so
\* far, the abort signal, and the callback of this run (the abortAt-th, 0: none)
\* from inside which the caller calls abort for the key of the request; own says
\* that the registry holds this request's controller under that key.
Run(d, cs, sig, abortAt, own, t) ==
    [d |-> d, calls |-> cs, aborted |-> sig, ncb |-> 0, abortAt |-> abortAt,
     own |-> own, fired |-> FALSE, now |-> t]

\* cb?.(arg): the invocation is recorded with the state of the abort signal at the
\* time of the call.
Emit(x, cb, arg) ==
    LET n == x.ncb + 1
        x1 == [x EXCEPT !.calls = Append(@, [cb |-> cb, arg |-> arg, late |-> x.aborted]),
                        !.ncb = n]
    IN IF n = x.abortAt
       THEN [x1 EXCEPT !.fired = TRUE, !.aborted = @ \/ x.own]
       ELSE x1

EmptyToolCall == [id |-> "", type |-> "", function |-> NoFunction]

RECURSIVE Pad(_, _)
Pad(result, index) ==
    IF Len(result) <= index THEN Pad(Append(result, EmptyToolCall), index) ELSE result

\* Mutation of MergeOne: the arguments of a fragment replace those merged so far
MergeOneReplaces(result, delta, indexOffset) ==
    LET index == IF delta.index >= 0 THEN delta.index + indexOffset ELSE Len(result)
        padded == Pad(result, index)
        target == padded[index + 1]
        t1 == IF delta.id # "" THEN [target EXCEPT !.id = delta.id] ELSE target
        t2 == IF delta.type # "" THEN [t1 EXCEPT !.type = delta.type] ELSE t1
        fn0 == IF t2.function.def THEN t2.function ELSE [NoFunction EXCEPT !.def = TRUE]
        fn1 == IF delta.function.name # "" THEN [fn0 EXCEPT !.name = delta.function.name] ELSE fn0
        fn2 == IF delta.function.arguments # <<>>
               THEN [fn1 EXCEPT !.arguments = delta.function.arguments]
               ELSE fn1
        t3 == IF delta.function.def THEN [t2 EXCEPT !.function = fn2] ELSE t2
    IN [padded EXCEPT ![index + 1] = t3]

\* The body of the loop of mergeToolCallDeltas for one delta (index is 0-based; an
\* index that is absent or not a number is -1)
MergeOne(result, delta, indexOffset) ==
    LET index == IF delta.index >= 0 THEN delta.index + indexOffset ELSE Len(result)
        padded == Pad(result, index)
        target == padded[index + 1]
        t1 == IF delta.id # "" THEN [target EXCEPT !.id = delta.id] ELSE target
        t2 == IF delta.type # "" THEN [t1 EXCEPT !.type = delta.type] ELSE t1
        fn0 == IF t2.function.def THEN t2.function ELSE [NoFunction EXCEPT !.def = TRUE]
        fn1 == IF delta.function.name # "" THEN [fn0 EXCEPT !.name = delta.function.name] ELSE fn0
        fn2 == IF delta.function.arguments # <<>>
               THEN [fn1 EXCEPT !.arguments = @ \o delta.function.arguments]
               ELSE fn1
        t3 == IF delta.function.def THEN [t2 EXCEPT !.function = fn2] ELSE t2
    IN [padded EXCEPT ![index + 1] = t3]

RECURSIVE mergeToolCallDeltas(_, _, _)
mergeToolCallDeltas(existing, deltas, indexOffset) ==
    IF deltas = <<>>
    THEN existing
    ELSE mergeToolCallDeltas(MergeOne(existing, Head(deltas), indexOffset),
                             Tail(deltas), indexOffset)

\* JSON.stringify of a tool-call list, and undefined in its place
Stringify(toolCalls) == [def |-> TRUE, json |-> toolCalls]
NoToolCalls == [def |-> FALSE, json |-> <<>>]

\* Mutation of finalizeOpenToolCallBatch: the batch is closed but the offset stays
finalizeKeepsOffset(x) ==
    IF ~x.d.hasOpenToolCallBatch THEN x ELSE [x EXCEPT !.d.hasOpenToolCallBatch = FALSE]

finalizeOpenToolCallBatch(x) ==
    IF ~x.d.hasOpenToolCallBatch
    THEN x
    ELSE [x EXCEPT !.d.toolCallIndexOffset = Len(x.d.aggregatedToolCalls),
                   !.d.hasOpenToolCallBatch = FALSE]

processToolCallDelta(x, toolCalls) ==
    IF toolCalls = <<>>
    THEN x
    ELSE LET merged == mergeToolCallDeltas(x.d.aggregatedToolCalls, toolCalls,
                                           x.d.toolCallIndexOffset)
             x1 == [x EXCEPT !.d.aggregatedToolCalls = merged]
         IN IF merged = <<>>
            THEN x1
            ELSE LET x2 == [x1 EXCEPT !.d.hasOpenToolCallBatch = TRUE]
                 IN IF ~x2.aborted THEN Emit(x2, "onToolCallChunk", Stringify(merged)) ELSE x2

\* getTrimmedString applied to a model field: <<>> stands for undefined
getTrimmedString(value) == Trim(value)

extractModelName(data) ==
    LET rootModel == getTrimmedString(data.model)
        deltaModel == getTrimmedString(data.deltaModel)
        messageModel == getTrimmedString(data.messageModel)
    IN IF rootModel # <<>> THEN rootModel
       ELSE IF ~data.hasChoices THEN <<>>
       ELSE IF deltaModel # <<>> THEN deltaModel
       ELSE messageModel

----------------------------------------------------------------------------
(* handleStreamResponse: one parsed chunk *)

\* if (!firstValidChunkEmitted && parsed.object === 'chat.completion.chunk')
StepFirstValid(x, parsed) ==
    IF ~x.d.firstValidChunkEmitted /\ parsed.object = "chat.completion.chunk"
    THEN LET x1 == [x EXCEPT !.d.firstValidChunkEmitted = TRUE]
         IN IF ~x1.aborted THEN Emit(x1, "onFirstValidChunk", <<>>) ELSE x1
    ELSE x

\* if (chunkModel && !modelEmitted): onModel is called whatever the abort signal says
StepModel(x, parsed) ==
    LET chunkModel == extractModelName(parsed)
    IN IF chunkModel # <<>> /\ ~x.d.modelEmitted
       THEN Emit([x EXCEPT !.d.modelEmitted = TRUE], "onModel", chunkModel)
       ELSE x

\* parsed.choices[0]?.delta?.reasoning || parsed.choices[0]?.delta?.reasoning_content
ReasoningOf(parsed) ==
    IF parsed.reasoning # <<>> THEN parsed.reasoning ELSE parsed.reasoning_content

\* firstTokenTime, usageData and lastTimings
StepMeta(x, parsed) ==
    LET x1 == IF (parsed.content # <<>> \/ ReasoningOf(parsed) # <<>>) /\ x.d.firstTokenTime = 0
              THEN [x EXCEPT !.d.firstTokenTime = x.now]
              ELSE x
        x2 == IF parsed.usage.def /\ parsed.finish_reason # ""
              THEN [x1 EXCEPT !.d.usageData = parsed.usage]
              ELSE x1
    IN IF parsed.timings.def THEN [x2 EXCEPT !.d.lastTimings = parsed.timings] ELSE x2

\* if (thinkBuffer.includes('<think>') && !insideThinkTag)
ThinkOpen(x) ==
    IF Includes(x.d.thinkBuffer, THINK_OPEN) /\ ~x.d.insideThinkTag
    THEN LET parts == Split(x.d.thinkBuffer, THINK_OPEN)
             x1 == [x EXCEPT !.d.insideThinkTag = TRUE]
             x2 == IF parts[1] # <<>> /\ ~x1.aborted
                   THEN LET e == Emit(x1, "onChunk", parts[1])
                        IN [e EXCEPT !.d.aggregatedContent = @ \o parts[1]]
                   ELSE x1
         IN [x2 EXCEPT !.d.thinkBuffer = PartOr(parts, 2)]
    ELSE x

\* if (insideThinkTag && thinkBuffer.includes('</think>')) ... else if ... else
ThinkClose(x, content) ==
    IF x.d.insideThinkTag /\ Includes(x.d.thinkBuffer, THINK_CLOSE)
    THEN LET parts == Split(x.d.thinkBuffer, THINK_CLOSE)
             thinkContent == parts[1]
             x1 == IF thinkContent # <<>> /\ ~x.aborted
                   THEN LET e == Emit(x, "onReasoningChunk", thinkContent)
                        IN [e EXCEPT !.d.fullReasoningContent = @ \o thinkContent]
                   ELSE x
             processedContent == PartOr(parts, 2)
             x2 == [x1 EXCEPT !.d.thinkBuffer = <<>>, !.d.insideThinkTag = FALSE]
         IN IF processedContent # <<>> /\ ~x2.aborted
            THEN LET e == Emit(x2, "onChunk", processedContent)
                 IN [e EXCEPT !.d.aggregatedContent = @ \o processedContent]
            ELSE x2
    ELSE IF x.d.insideThinkTag
    THEN x
    ELSE LET x1 == [x EXCEPT !.d.aggregatedContent = @ \o content]
         IN IF ~x1.aborted THEN Emit(x1, "onChunk", content) ELSE x1

\* if (content) { ... }
StepContent(x, content) ==
    IF content = <<>>
    THEN x
    ELSE LET x1 == finalizeOpenToolCallBatch(x)
             x2 == [x1 EXCEPT !.d.thinkBuffer = @ \o content]
         IN ThinkClose(ThinkOpen(x2), content)

\* if (reasoningContent) { ... }
StepReasoning(x, reasoningContent) ==
    IF reasoningContent = <<>>
    THEN x
    ELSE LET x1 == finalizeOpenToolCallBatch(x)
             x2 == [x1 EXCEPT !.d.fullReasoningContent = @ \o reasoningContent]
         IN IF ~x2.aborted THEN Emit(x2, "onReasoningChunk", reasoningContent) ELSE x2

\* The body of the try block for one parsed payload; reading parsed.choices[0] of
\* a payload without choices throws, which the catch block swallows.
ProcessParsed(x, parsed) ==
    LET x1 == StepFirstValid(x, parsed)
    IN IF ~parsed.hasChoices
       THEN x1
       ELSE LET x2 == StepMeta(StepModel(x1, parsed), parsed)
                x3 == StepContent(x2, parsed.content)
                x4 == StepReasoning(x3, ReasoningOf(parsed))
            IN processToolCallDelta(x4, parsed.tool_calls)

----------------------------------------------------------------------------
(* handleStreamResponse: lines and reads *)

\* line.startsWith('data: ')
IsDataLine(line) == line # <<>> /\ line[1].t = "data: "

\* data === '[DONE]'
\* Mutation of IsDone: a payload that only starts with [DONE] ends the stream
IsDoneStartsWith(data) == data # <<>> /\ data[1] = DoneTok

\* if (data === '[DONE]')
IsDone(data) == data = <<DoneTok>>

\* JSON.parse(data) succeeds: JSON text with white space around it
NotCR(a) == a.t # "\r"
JsonText(data) == SelectSeq(data, NotCR)
ParseOk(data) == Len(JsonText(data)) = 1 /\ JsonText(data)[1].t = "json"

\* Mutation of ProcessLine: a payload that does not parse is reported to onError
ProcessLineReportsBadJson(x, line) ==
    IF ~IsDataLine(line)
    THEN x
    ELSE LET data == Tail(line)
         IN IF IsDone(data)
            THEN [x EXCEPT !.d.streamFinished = TRUE]
            ELSE IF ParseOk(data)
            THEN ProcessParsed(x, JsonText(data)[1].v)
            ELSE Emit(x, "onError", Err("SyntaxError", "Unexpected token", {}))

\* The body of the loop over the lines, after its abort check
ProcessLine(x, line) ==
    IF ~IsDataLine(line)
    THEN x
    ELSE LET data == Tail(line)
         IN IF IsDone(data)
            THEN [x EXCEPT !.d.streamFinished = TRUE]
            ELSE IF ParseOk(data)
            THEN ProcessParsed(x, JsonText(data)[1].v)
            ELSE x

\* for (const line of lines) { if (abortSignal?.aborted) break; ... }
RECURSIVE ProcessLines(_, _)
ProcessLines(x, lines) ==
    IF lines = <<>> \/ x.aborted
    THEN x
    ELSE ProcessLines(ProcessLine(x, Head(lines)), Tail(lines))

\* text.split('\n')
RECURSIVE SplitNL(_, _)
SplitNL(text, cur) ==
    IF text = <<>>
    THEN <<cur>>
    ELSE IF Head(text).t = "\n"
    THEN <<cur>> \o SplitNL(Tail(text), <<>>)
    ELSE SplitNL(Tail(text), Append(cur, Head(text)))

\* The complete lines of the buffer and the partial line kept for the next read
CompleteLines(text) == LET ls == SplitNL(text, <<>>) IN SubSeq(ls, 1, Len(ls) - 1)
PartialLine(text) == LET ls == SplitNL(text, <<>>) IN ls[Len(ls)]

\* Mutation of ProcessRead: the partial line of the previous read is not kept
ProcessReadForgetsPartial(x, value) ==
    LET x1 == [x EXCEPT !.d.chunk = PartialLine(value)]
    IN ProcessLines(x1, CompleteLines(value))

\* The loop body after a read that delivered value
ProcessRead(x, value) ==
    LET text == x.d.chunk \o value
        x1 == [x EXCEPT !.d.chunk = PartialLine(text)]
    IN ProcessLines(x1, CompleteLines(text))

\* Mutation of StreamTimings: the whole elapsed time is attributed to generation
StreamTimingsAllPredicted(d, endTime) ==
    IF d.usageData.def /\ ~d.lastTimings.def
    THEN [def |-> TRUE,
          prompt_n |-> d.usageData.prompt_tokens,
          prompt_ms |-> IF d.firstTokenTime # 0 THEN d.firstTokenTime - d.startTime
                        ELSE (endTime - d.startTime) \div 10,
          predicted_n |-> d.usageData.completion_tokens,
          predicted_ms |-> endTime - d.startTime]
    ELSE d.lastTimings

\* The usage-to-timings conversion of the streaming path
StreamTimings(d, endTime) ==
    IF d.usageData.def /\ ~d.lastTimings.def
    THEN LET totalMs == endTime - d.startTime
         IN [def |-> TRUE,
             prompt_n |-> d.usageData.prompt_tokens,
             prompt_ms |-> IF d.firstTokenTime # 0 THEN d.firstTokenTime - d.startTime
                           ELSE totalMs \div 10,
             predicted_n |-> d.usageData.completion_tokens,
             predicted_ms |-> IF d.firstTokenTime # 0 THEN endTime - d.firstTokenTime
                              ELSE (9 * totalMs) \div 10]
    ELSE d.lastTimings

\* Mutation of Finalise: onComplete is given no reasoning
FinaliseWithoutReasoning(x) ==
    IF x.aborted \/ ~x.d.streamFinished
    THEN x
    ELSE LET x1 == finalizeOpenToolCallBatch(x)
             x2 == [x1 EXCEPT !.d.lastTimings = StreamTimings(x1.d, x1.now)]
         IN Emit(x2, "onComplete",
                 [content |-> x2.d.aggregatedContent,
                  reasoning |-> <<>>,
                  timings |-> x2.d.lastTimings,
                  toolCalls |-> IF Len(x1.d.aggregatedToolCalls) > 0
                                THEN Stringify(x1.d.aggregatedToolCalls)
                                ELSE NoToolCalls])

\* What follows the read loop
Finalise(x) ==
    IF x.aborted \/ ~x.d.streamFinished
    THEN x
    ELSE LET x1 == finalizeOpenToolCallBatch(x)
             finalToolCalls == IF Len(x1.d.aggregatedToolCalls) > 0
                               THEN Stringify(x1.d.aggregatedToolCalls)
                               ELSE NoToolCalls
             x2 == [x1 EXCEPT !.d.lastTimings = StreamTimings(x1.d, x1.now)]
         IN Emit(x2, "onComplete",
                 [content |-> x2.d.aggregatedContent,
                  reasoning |-> x2.d.fullReasoningContent,
                  timings |-> x2.d.lastTimings,
                  toolCalls |-> finalToolCalls])

----------------------------------------------------------------------------
(* sendMessage: the request *)

\* options.f and config().f, undefined when absent
Opt(o, f) == IF f \in DOMAIN o THEN o[f] ELSE Undefined

Has(b, f) == f \in DOMAIN b
Put(b, f, v) == [g \in DOMAIN b \cup {f} |-> IF g = f THEN v ELSE b[g]]
Del(b, f) == [g \in DOMAIN b \ {f} |-> b[g]]

\* The value is truthy
Truthy(v) == v \notin {Undefined, Null, "", "0", "false"}

SystemMsg(content) == [role |-> "system", content |-> content]

\* The filter of the message normalisation: a system message needs text
KeepMessage(msg) == msg.role = "system" => Len(Trim(msg.content)) > 0

\* Mutation of injectSystemMessage: the configured message is put in front of
\* whatever the list starts with
injectInFront(messages, configured) ==
    IF Trim(configured) = <<>> THEN messages ELSE <<SystemMsg(Trim(configured))>> \o messages

injectSystemMessage(messages, configured) ==
    LET systemMessage == Trim(configured)
    IN IF systemMessage = <<>>
       THEN messages
       ELSE IF Len(messages) > 0 /\ messages[1].role = "system"
       THEN IF messages[1].content # systemMessage
            THEN [messages EXCEPT ![1] = SystemMsg(systemMessage)]
            ELSE messages
       ELSE <<SystemMsg(systemMessage)>> \o messages

\* The options copied into the body under their own name when defined
PassThrough ==
    {"temperature", "max_context", "dynatemp_range", "dynatemp_exponent", "top_k",
     "top_p", "min_p", "xtc_probability", "xtc_threshold", "typ_p", "repeat_last_n",
     "repeat_penalty", "presence_penalty", "frequency_penalty", "dry_multiplier",
     "dry_base", "dry_allowed_length", "dry_penalty_last_n", "timings_per_token"}

\* samplers.split(';').filter((s) => s.trim()) for a string, the array itself otherwise
NonBlank(sampler) == Trim(sampler) # <<>>
SamplersOf(v) == IF v.isString THEN SelectSeq(v.parts, NonBlank) ELSE v.parts

\* Object.assign(requestBody, customParams)
RECURSIVE Assign(_, _)
Assign(b, extra) ==
    IF DOMAIN extra = {}
    THEN b
    ELSE LET f == CHOOSE g \in DOMAIN extra : TRUE
         IN Assign(Put(b, f, extra[f]), Del(extra, f))

\* requestBody as built before the try block
BuildBody(messages, o, cfg) ==
    LET normalized == SelectSeq(messages, KeepMessage)
        processed == injectSystemMessage(normalized, cfg.systemMessage)
        b0 == [messages |-> processed, stream |-> Opt(o, "stream")]
        b1 == IF cfg.modelSelectorEnabled /\ cfg.selectedModel # ""
              THEN Put(b0, "model", cfg.selectedModel)
              ELSE b0
        b2 == Put(b1, "reasoning_format",
                  IF cfg.disableReasoningFormat THEN "none" ELSE "auto")
        mt == Opt(o, "max_tokens")
        mct == Opt(o, "max_completion_tokens")
        b3 == IF mt # Undefined
              THEN Put(b2, "max_tokens", IF mt # Null /\ mt # "0" THEN mt ELSE "-1")
              ELSE IF mct # Undefined /\ mct # Null /\ mct # "0" /\ mct # "-1"
              THEN Put(b2, "max_completion_tokens", mct)
              ELSE b2
        re == Opt(o, "reasoning_effort")
        b4 == IF re # Undefined /\ re # "none" THEN Put(b3, "reasoning_effort", re) ELSE b3
        plain == {f \in PassThrough : Opt(o, f) # Undefined}
        b5 == [f \in DOMAIN b4 \cup plain |-> IF f \in plain THEN o[f] ELSE b4[f]]
        b6 == IF Has(o, "samplers") THEN Put(b5, "samplers", SamplersOf(o.samplers)) ELSE b5
    IN IF Has(o, "custom") /\ o.custom.parses THEN Assign(b6, o.custom.fields) ELSE b6

\* The body fields an external provider is sent
StandardParams ==
    {"messages", "model", "stream", "temperature", "top_p", "presence_penalty",
     "max_tokens", "max_completion_tokens", "reasoning_effort", "stop", "tools",
     "tool_choice", "response_format", "n", "logit_bias", "user"}

\* The field holds undefined
IsUndefined(b, f) == f \notin {"messages", "samplers"} /\ b[f] = Undefined

\* The filter applied to the body for an external provider
FilterExternal(b) ==
    LET keep == {f \in DOMAIN b \cap StandardParams : ~IsUndefined(b, f)}
        std == [f \in keep |-> b[f]]
    IN IF Has(std, "max_tokens") /\ std.max_tokens = "-1" THEN Del(std, "max_tokens") ELSE std

\* JSON.stringify(requestBody): a field holding undefined is left out
Serialize(b) == [f \in {g \in DOMAIN b : ~IsUndefined(b, g)} |-> b[f]]

EndsWith(s, c) == s # <<>> /\ s[Len(s)] = c
HTTP == <<"h", "t", "t", "p", ":", "/", "/">>
HTTPS == <<"h", "t", "t", "p", "s", ":", "/", "/">>
DOT == <<".">>

\* apiBaseUrl after the trim, the default and the removal of a trailing slash
ApiBaseUrl(configured) ==
    LET u == IF Trim(configured) = <<>> THEN DOT ELSE Trim(configured)
    IN IF u # DOT /\ EndsWith(u, "/") THEN SubSeq(u, 1, Len(u) - 1) ELSE u

isExternalApi(u) ==
    u # DOT /\ ~MatchAt(u, <<"/">>, 1) /\ (MatchAt(u, HTTP, 1) \/ MatchAt(u, HTTPS, 1))

\* chatEndpoint: the base and the path appended to it
chatEndpoint(u) ==
    IF u = DOT
    THEN [base |-> DOT, path |-> "/v1/chat/completions"]
    ELSE [base |-> u, path |-> "/chat/completions"]

\* requestBody at the first fetch
FirstBody(messages, o, cfg) ==
    LET b == BuildBody(messages, o, cfg)
    IN IF isExternalApi(ApiBaseUrl(cfg.apiBaseUrl)) THEN FilterExternal(b) ELSE b

\* What one fetch of the call sends
Fetched(b, cfg) ==
    [url |-> chatEndpoint(ApiBaseUrl(cfg.apiBaseUrl)),
     authorization |-> Trim(cfg.apiKey),
     body |-> Serialize(b)]

maxAttempts == 3

\* Mutation of RejectsReasoningEffort: the request body is not looked at
RejectsReasoningEffortAnyBody(errorText, b) ==
    errorText \cap {"Thinking is not enabled", "reasoning_effort", "INVALID_ARGUMENT"} # {}

\* Case 1 of the retry check: the server rejected reasoning_effort
RejectsReasoningEffort(errorText, b) ==
    /\ errorText \cap {"Thinking is not enabled", "reasoning_effort", "INVALID_ARGUMENT"} # {}
    /\ Has(b, "reasoning_effort") /\ Truthy(b.reasoning_effort)

\* Case 2 of the retry check: the server rejected max_tokens
RejectsMaxTokens(errorText, b) ==
    /\ errorText \cap {"max_tokens", "max_completion_tokens"} # {}
    /\ Has(b, "max_tokens") /\ b.max_tokens # Undefined

\* Mutation of RetryBody: max_tokens is copied to max_completion_tokens and kept
RetryBodyCopiesMaxTokens(errorText, b) ==
    LET b1 == IF RejectsReasoningEffort(errorText, b) THEN Del(b, "reasoning_effort") ELSE b
    IN IF RejectsMaxTokens(errorText, b1)
       THEN Put(b1, "max_completion_tokens", b1.max_tokens)
       ELSE b1

\* requestBody after the retry check of a 400 response whose text is errorText
RetryBody(errorText, b) ==
    LET b1 == IF RejectsReasoningEffort(errorText, b) THEN Del(b, "reasoning_effort") ELSE b
    IN IF RejectsMaxTokens(errorText, b1)
       THEN Del(Put(b1, "max_completion_tokens", b1.max_tokens), "max_tokens")
       ELSE b1

\* while (attempts < maxAttempts)
MayRetry(n) == n < maxAttempts

\* retrying
Retrying(errorText, b) ==
    RejectsReasoningEffort(errorText, b) \/ RejectsMaxTokens(errorText, b)

----------------------------------------------------------------------------
(* Error responses and the catch block of sendMessage *)

\* The fallback of parseErrorResponse: its message is made of the status and the
\* status text of the response, so it holds the searched substrings the status
\* text holds
parseErrorFallback(resp) ==
    Err("HttpError", "Server error (status): statusText", resp.statusText)

\* parseErrorResponse once response.text() has resolved. The body is a JSON
\* object with error.message ("error.message"), a JSON object with message
\* ("message"), another JSON object ("json"), the JSON text null ("null"), text
\* that is not JSON ("text") or empty ("empty"). has is the set of searched
\* substrings the text of the body holds, inMessage those of them the message
\* property holds. The message of the error is that property or, without one, the
\* whole text; reading a property of null throws, which like a failed JSON.parse
\* gives the fallback.
parseErrorResponse(resp) ==
    IF resp.error.form \in {"text", "empty", "null"}
    THEN parseErrorFallback(resp)
    ELSE Err(IF resp.status = 400 THEN "ServerError" ELSE "HttpError",
             IF resp.error.form = "json" THEN "errorText" ELSE resp.error.form,
             IF resp.error.form = "json" THEN resp.error.has
             ELSE resp.error.inMessage)

\* userFriendlyError of the catch block of sendMessage
userFriendlyError(error) ==
    IF error.name = "TypeError" /\ "fetch" \in error.has
    THEN Err("NetworkError",
             "Unable to connect to server - please check if the server is running", {})
    ELSE IF "ECONNREFUSED" \in error.has
    THEN Err("NetworkError", "Connection refused - server may be offline", {})
    ELSE IF "ETIMEDOUT" \in error.has
    THEN Err("TimeoutError", "Request timed out - the server took too long to respond", {})
    ELSE error

Pending == [kind |-> "pending", error |-> NoError]
Resolved == [kind |-> "resolved", error |-> NoError]
Threw(error) == [kind |-> "threw", error |-> error]

\* The catch block of sendMessage for a thrown error: the callbacks and the outcome
Caught(x, error) ==
    IF error.name = "AbortError"
    THEN [x |-> x, outcome |-> Resolved]
    ELSE [x |-> Emit(x, "onError", userFriendlyError(error)),
          outcome |-> Threw(userFriendlyError(error))]

\* The catch block of handleStreamResponse: onError, and the error is thrown again
CaughtInHandler(x, error) == Emit(x, "onError", error)

----------------------------------------------------------------------------
(* handleNonStreamResponse *)

\* content.match(thinkRegex): the matches of /<think>([\s\S]*?)<\/think>/g
RECURSIVE ThinkMatches(_)
ThinkMatches(s) ==
    LET i == IndexOf(s, THINK_OPEN)
        rest == SubSeq(s, i + Len(THINK_OPEN), Len(s))
        j == IndexOf(rest, THINK_CLOSE)
    IN IF i = 0 \/ j = 0
       THEN <<>>
       ELSE <<THINK_OPEN \o SubSeq(rest, 1, j - 1) \o THINK_CLOSE>>
            \o ThinkMatches(SubSeq(rest, j + Len(THINK_CLOSE), Len(rest)))

\* content.replace(thinkRegex, '')
RECURSIVE RemoveThink(_)
RemoveThink(s) ==
    LET i == IndexOf(s, THINK_OPEN)
        rest == SubSeq(s, i + Len(THINK_OPEN), Len(s))
        j == IndexOf(rest, THINK_CLOSE)
    IN IF i = 0 \/ j = 0
       THEN s
       ELSE SubSeq(s, 1, i - 1) \o RemoveThink(SubSeq(rest, j + Len(THINK_CLOSE), Len(rest)))

\* match.replace(/<\/?think>/g, '')
RECURSIVE StripTags(_)
StripTags(s) ==
    IF s = <<>> THEN <<>>
    ELSE IF MatchAt(s, THINK_OPEN, 1)
    THEN StripTags(SubSeq(s, Len(THINK_OPEN) + 1, Len(s)))
    ELSE IF MatchAt(s, THINK_CLOSE, 1)
    THEN StripTags(SubSeq(s, Len(THINK_CLOSE) + 1, Len(s)))
    ELSE <<Head(s)>> \o StripTags(Tail(s))

\* parts.join('\n\n')
RECURSIVE Join(_)
Join(parts) ==
    IF parts = <<>> THEN <<>>
    ELSE IF Len(parts) = 1 THEN parts[1]
    ELSE parts[1] \o <<"\n", "\n">> \o Join(Tail(parts))

\* reasoning is <<>> for null
parseThinkTags(content) ==
    LET matches == ThinkMatches(content)
    IN IF matches = <<>>
       THEN [content |-> content, reasoning |-> <<>>]
       ELSE [content |-> Trim(RemoveThink(content)),
             reasoning |-> Join([k \in 1..Len(matches) |-> Trim(StripTags(matches[k]))])]

NoResponseError == Err("Error", "No response received from server. Please try again.", {})

\* The usage-to-timings conversion of the non-streaming path
NonStreamTimings(usage, startTime, endTime) ==
    IF usage.def /\ startTime # 0
    THEN LET totalMs == endTime - startTime
         IN [def |-> TRUE, prompt_n |-> usage.prompt_tokens, prompt_ms |-> totalMs \div 10,
             predicted_n |-> usage.completion_tokens,
             predicted_ms |-> (9 * totalMs) \div 10]
    ELSE NoTimings

\* handleNonStreamResponse once response.text() has resolved. The body is empty or
\* blank ("blank"), not JSON ("text") or JSON ("json", parsed in data). The result
\* is the run and the error thrown inside the try block (NoError: none).
handleNonStreamResponse(x, body, startTime) ==
    IF body.form = "blank"
    THEN [x |-> x, error |-> NoResponseError]
    ELSE IF body.form = "text"
    THEN [x |-> x, error |-> Err("SyntaxError", "Unexpected token", {})]
    ELSE LET data == body.data
             responseModel == extractModelName(data)
             x1 == IF responseModel # <<>> THEN Emit(x, "onModel", responseModel) ELSE x
             explicit == ReasoningOf(data)
             parsed == parseThinkTags(data.content)
             useTags == data.content # <<>> /\ explicit = <<>>
             content == IF useTags THEN parsed.content ELSE data.content
             reasoningContent == IF useTags THEN parsed.reasoning ELSE explicit
             merged == mergeToolCallDeltas(<<>>, data.tool_calls, 0)
             hasCalls == data.tool_calls # <<>> /\ merged # <<>>
             x2 == IF hasCalls THEN Emit(x1, "onToolCallChunk", Stringify(merged)) ELSE x1
         IN IF ~data.hasChoices
            THEN [x |-> x1,
                  error |-> Err("TypeError", "Cannot read properties of undefined", {})]
            ELSE IF Trim(content) = <<>> /\ ~hasCalls
            THEN [x |-> x2, error |-> NoResponseError]
            ELSE [x |-> Emit(x2, "onComplete",
                             [content |-> content,
                              reasoning |-> reasoningContent,
                              timings |-> NonStreamTimings(data.usage, startTime, x2.now),
                              toolCalls |-> IF hasCalls THEN Stringify(merged)
                                            ELSE NoToolCalls]),
                  error |-> NoError]

----------------------------------------------------------------------------
(* The registry of abort controllers *)

Keys == {"default", "c1", "c2"}

\* abort(conversationId) with a key: the registry and the signals afterwards
\* Mutation of AbortKey: the whole registry is cleared
AbortKeyClearsAll(reg, sig, k) ==
    IF reg[k] # 0
    THEN [reg |-> [j \in Keys |-> 0], sig |-> [sig EXCEPT ![reg[k]] = TRUE]]
    ELSE [reg |-> reg, sig |-> sig]

\* abort(conversationId) with a key: the registry and the signals afterwards
AbortKey(reg, sig, k) ==
    IF reg[k] # 0
    THEN [reg |-> [reg EXCEPT ![k] = 0], sig |-> [sig EXCEPT ![reg[k]] = TRUE]]
    ELSE [reg |-> reg, sig |-> sig]

\* abort() without a key: the registry and the signals afterwards
AbortAll(reg, sig) ==
    [reg |-> [k \in Keys |-> 0],
     sig |-> [r \in Rid |-> sig[r] \/ \E k \in Keys : reg[k] = r]]

\* finally { this.abortControllers.delete(requestId) }
DeleteKey(reg, k) == [reg EXCEPT ![k] = 0]

\* conversationId || 'default'
RequestId(conversationId) ==
    IF conversationId \in {Undefined, ""} THEN "default" ELSE conversationId

----------------------------------------------------------------------------
(* The state *)

NotAborted == [op |-> "none", key |-> ""]
ByAbort(conversationId) == [op |-> "abort", key |-> conversationId]
BySendMessage(requestId) == [op |-> "sendMessage", key |-> requestId]

\* statusText is the set of searched substrings the status text holds
NoResponse ==
    [status |-> 0, statusText |-> {}, hasBody |-> FALSE, body |-> <<>>,
     error |-> [form |-> "empty", has |-> {}, inMessage |-> {}],
     text |-> [form |-> "blank", data |-> Chunk0]]

\* Settings of a local server with no system message
LocalCfg ==
    [systemMessage |-> <<>>, modelSelectorEnabled |-> FALSE, selectedModel |-> "",
     disableReasoningFormat |-> FALSE, apiBaseUrl |-> <<>>, apiKey |-> <<>>]

\* Before sendMessage is called
NoArgs == [messages |-> <<>>, options |-> [stream |-> Undefined], cfg |-> LocalCfg]

Init ==
    /\ nreq = 0
    /\ abortControllers = [k \in Keys |-> 0]
    /\ aborted = [r \in Rid |-> FALSE]
    /\ key = [r \in Rid |-> ""]
    /\ stream = [r \in Rid |-> Undefined]
    /\ args = [r \in Rid |-> NoArgs]
    /\ pc = [r \in Rid |-> "idle"]
    /\ requestBody = [r \in Rid |-> <<>>]
    /\ attempts = [r \in Rid |-> 0]
    /\ startedAt = [r \in Rid |-> 0]
    /\ response = [r \in Rid |-> NoResponse]
    /\ wire = [r \in Rid |-> <<>>]
    /\ dec = [r \in Rid |-> Dec0(0)]
    /\ calls = [r \in Rid |-> <<>>]
    /\ outcome = [r \in Rid |-> Pending]
    /\ handler = [r \in Rid |-> Pending]
    /\ sent = [r \in Rid |-> <<>>]
    /\ got = [r \in Rid |-> <<>>]
    /\ abortedBy = [r \in Rid |-> NotAborted]
    /\ delivered = [r \in Rid |-> <<>>]
    /\ now = 1

\* abortedBy once the signals have changed from sig to sig2 through operation by
MarkAborted(sig, sig2, by) ==
    [r \in Rid |-> IF ~sig[r] /\ sig2[r] THEN by ELSE abortedBy[r]]

\* The run of a handler of call r that resumes from an await
Resume(r, abortAt) ==
    Run(dec[r], calls[r], aborted[r], abortAt, abortControllers[key[r]] = r, now)

\* The registry and the signals after a run: abort(key) if a callback called it
AfterRun(r, x) ==
    IF x.fired
    THEN AbortKey(abortControllers, aborted, key[r])
    ELSE [reg |-> abortControllers, sig |-> aborted]

\* The call is suspended again at the await named by next
Suspend(r, x, next) ==
    /\ pc' = [pc EXCEPT ![r] = next]
    /\ dec' = [dec EXCEPT ![r] = x.d]
    /\ calls' = [calls EXCEPT ![r] = x.calls]
    /\ abortControllers' = AfterRun(r, x).reg
    /\ aborted' = AfterRun(r, x).sig
    /\ abortedBy' = MarkAborted(aborted, AfterRun(r, x).sig, ByAbort(key[r]))
    /\ UNCHANGED <<nreq, key, stream, args, startedAt, outcome, handler, now>>

\* The call settles: the finally block of sendMessage deletes the entry of its key
Settle(r, x, out) ==
    /\ pc' = [pc EXCEPT ![r] = "done"]
    /\ dec' = [dec EXCEPT ![r] = x.d]
    /\ calls' = [calls EXCEPT ![r] = x.calls]
    /\ outcome' = [outcome EXCEPT ![r] = out]
    /\ abortControllers' = DeleteKey(AfterRun(r, x).reg, key[r])
    /\ aborted' = AfterRun(r, x).sig
    /\ abortedBy' = MarkAborted(aborted, AfterRun(r, x).sig, ByAbort(key[r]))
    /\ UNCHANGED <<nreq, key, stream, args, startedAt, handler, now>>

\* handleStreamResponse ends, by returning or by throwing: its promise settles,
\* and sendMessage, suspended at `await this.handleStreamResponse(...)`, resumes
\* in a later microtask
HandlerEnds(r, x, result) ==
    /\ pc' = [pc EXCEPT ![r] = "unwind"]
    /\ dec' = [dec EXCEPT ![r] = x.d]
    /\ calls' = [calls EXCEPT ![r] = x.calls]
    /\ handler' = [handler EXCEPT ![r] = result]
    /\ abortControllers' = AfterRun(r, x).reg
    /\ aborted' = AfterRun(r, x).sig
    /\ abortedBy' = MarkAborted(aborted, AfterRun(r, x).sig, ByAbort(key[r]))
    /\ UNCHANGED <<nreq, key, stream, args, startedAt, outcome, now>>

\* sendMessage returns the promise of handleNonStreamResponse without awaiting it:
\* its finally block runs at once and the handler goes on in the background
ReturnHandler(r, x) ==
    /\ pc' = [pc EXCEPT ![r] = "bodytext"]
    /\ dec' = [dec EXCEPT ![r] = x.d]
    /\ calls' = [calls EXCEPT ![r] = x.calls]
    /\ abortControllers' = DeleteKey(AfterRun(r, x).reg, key[r])
    /\ aborted' = AfterRun(r, x).sig
    /\ abortedBy' = MarkAborted(aborted, AfterRun(r, x).sig, ByAbort(key[r]))
    /\ UNCHANGED <<nreq, key, stream, args, startedAt, outcome, handler, now>>

\* handleNonStreamResponse ends, by returning or by throwing: its promise
\* settles, and the promise sendMessage returned, which was resolved with it,
\* follows in a later microtask
ReturnedHandlerEnds(r, x, result) ==
    /\ pc' = [pc EXCEPT ![r] = "adopt"]
    /\ dec' = [dec EXCEPT ![r] = x.d]
    /\ calls' = [calls EXCEPT ![r] = x.calls]
    /\ handler' = [handler EXCEPT ![r] = result]
    /\ abortControllers' = AfterRun(r, x).reg
    /\ aborted' = AfterRun(r, x).sig
    /\ abortedBy' = MarkAborted(aborted, AfterRun(r, x).sig, ByAbort(key[r]))
    /\ UNCHANGED <<nreq, key, stream, args, startedAt, outcome, now>>

----------------------------------------------------------------------------
(* sendMessage up to its first await *)

SendMessage(conversationId, messages, o, cfg, limit) ==
    /\ nreq < limit
    /\ LET r == nreq + 1
           requestId == RequestId(conversationId)
           prev == abortControllers[requestId]
           b == FirstBody(messages, o, cfg)
       IN /\ nreq' = r
          /\ aborted' = IF prev # 0 THEN [aborted EXCEPT ![prev] = TRUE] ELSE aborted
          /\ abortedBy' = IF prev # 0 /\ ~aborted[prev]
                          THEN [abortedBy EXCEPT ![prev] = BySendMessage(requestId)]
                          ELSE abortedBy
          /\ abortControllers' = [abortControllers EXCEPT ![requestId] = r]
          /\ key' = [key EXCEPT ![r] = requestId]
          /\ stream' = [stream EXCEPT ![r] = Opt(o, "stream")]
          /\ args' = [args EXCEPT ![r] = [messages |-> messages, options |-> o, cfg |-> cfg]]
          /\ requestBody' = [requestBody EXCEPT ![r] = b]
          /\ attempts' = [attempts EXCEPT ![r] = 1]
          /\ startedAt' = [startedAt EXCEPT ![r] = now]
          /\ sent' = [sent EXCEPT ![r] = <<Fetched(b, cfg)>>]
          /\ pc' = [pc EXCEPT ![r] = "fetch"]
    /\ UNCHANGED <<response, wire, dec, calls, outcome, handler, got, delivered, now>>

----------------------------------------------------------------------------
(* await fetch(...) *)

\* fetch rejects with an AbortError: the signal is aborted
FetchAborted(r) ==
    /\ pc[r] = "fetch" /\ aborted[r]
    /\ Settle(r, Resume(r, 0), Caught(Resume(r, 0), AbortError).outcome)
    /\ UNCHANGED <<requestBody, attempts, response, wire, sent, got, delivered>>

\* fetch rejects with a transport error
FetchFails(r, error) ==
    /\ pc[r] = "fetch" /\ ~aborted[r]
    /\ LET c == Caught(Resume(r, 0), error) IN Settle(r, c.x, c.outcome)
    /\ UNCHANGED <<requestBody, attempts, response, wire, sent, got, delivered>>

\* fetch resolves with a response: the rest of the loop body, and what follows
\* the loop up to the next await
FetchResponds(r, resp) ==
    /\ pc[r] = "fetch" /\ ~aborted[r]
    /\ response' = [response EXCEPT ![r] = resp]
    /\ got' = [got EXCEPT ![r] = Append(@, [status |-> resp.status,
                                            errorText |-> resp.error.has,
                                            textRead |-> FALSE])]
    /\ IF resp.status \in 200..299
       THEN IF Truthy(stream[r])
            THEN IF ~resp.hasBody
                 THEN /\ HandlerEnds(r, Resume(r, 0),
                                     Threw(Err("Error", "No response body", {})))
                      /\ UNCHANGED wire
                 ELSE /\ Suspend(r, [Resume(r, 0) EXCEPT !.d = Dec0(now)], "read")
                      /\ wire' = [wire EXCEPT ![r] = resp.body]
            ELSE ReturnHandler(r, Resume(r, 0)) /\ UNCHANGED wire
       ELSE IF resp.status = 400
       THEN Suspend(r, Resume(r, 0), "errtext") /\ UNCHANGED wire
       ELSE Suspend(r, Resume(r, 0), "parseerr") /\ UNCHANGED wire
    /\ UNCHANGED <<requestBody, attempts, sent, delivered>>

----------------------------------------------------------------------------
(* await errorClone.text() in the retry check, and await response.text() in
   parseErrorResponse *)

\* The text of the 400 response arrives: the retry check
ErrorTextRead(r) ==
    /\ pc[r] = "errtext"
    /\ LET errorText == response[r].error.has
           b == RetryBody(errorText, requestBody[r])
           again == Retrying(errorText, requestBody[r]) /\ MayRetry(attempts[r])
       IN /\ got' = [got EXCEPT ![r][Len(got[r])].textRead = TRUE]
          /\ requestBody' = [requestBody EXCEPT ![r] = b]
          /\ IF again
             THEN /\ attempts' = [attempts EXCEPT ![r] = @ + 1]
                  /\ sent' = [sent EXCEPT ![r] =
                                 Append(@, [sent[r][1] EXCEPT !.body = Serialize(b)])]
                  /\ Suspend(r, Resume(r, 0), "fetch")
             ELSE /\ UNCHANGED <<attempts, sent>>
                  /\ Suspend(r, Resume(r, 0), "parseerr")
    /\ UNCHANGED <<response, wire, delivered>>

\* The read of the text rejects because the request was aborted: the catch block
\* of the retry check, then the break
ErrorTextAborted(r) ==
    /\ pc[r] = "errtext" /\ aborted[r]
    /\ Suspend(r, Resume(r, 0), "parseerr")
    /\ UNCHANGED <<requestBody, attempts, response, wire, sent, got, delivered>>

\* parseErrorResponse returns: onError, throw, and the catch block of sendMessage
ErrorParsed(r) ==
    /\ pc[r] = "parseerr"
    /\ LET error == parseErrorResponse(response[r])
           c == Caught(Emit(Resume(r, 0), "onError", error), error)
       IN Settle(r, c.x, c.outcome)
    /\ UNCHANGED <<requestBody, attempts, response, wire, sent, got, delivered>>

\* response.text() rejects inside parseErrorResponse because the request was aborted
ErrorParseAborted(r) ==
    /\ pc[r] = "parseerr" /\ aborted[r]
    /\ LET error == parseErrorFallback(response[r])
           c == Caught(Emit(Resume(r, 0), "onError", error), error)
       IN Settle(r, c.x, c.outcome)
    /\ UNCHANGED <<requestBody, attempts, response, wire, sent, got, delivered>>

----------------------------------------------------------------------------
(* await reader.read() *)

\* The read resolves with the next n atoms of the body. abortAt names the callback
\* of this run from inside which abort is called for the key of the call.
ReadChunk(r, n, abortAt) ==
    /\ pc[r] = "read"
    /\ n \in 1..Len(wire[r])
    /\ LET value == SubSeq(wire[r], 1, n)
           x == IF aborted[r] THEN Resume(r, 0) ELSE ProcessRead(Resume(r, abortAt), value)
       IN /\ wire' = [wire EXCEPT ![r] = SubSeq(wire[r], n + 1, Len(wire[r]))]
          /\ delivered' = [delivered EXCEPT ![r] = @ \o value]
          /\ IF x.aborted THEN HandlerEnds(r, x, Resolved) ELSE Suspend(r, x, "read")
    /\ UNCHANGED <<requestBody, attempts, response, sent, got>>

\* The read resolves with done: the body has ended
ReadDone(r, abortAt) ==
    /\ pc[r] = "read"
    /\ wire[r] = <<>>
    /\ HandlerEnds(r, Finalise(Resume(r, abortAt)), Resolved)
    /\ UNCHANGED <<requestBody, attempts, response, wire, sent, got, delivered>>

\* The pending read rejects with an AbortError: the request was aborted
ReadAborted(r) ==
    /\ pc[r] = "read" /\ aborted[r]
    /\ HandlerEnds(r, CaughtInHandler(Resume(r, 0), AbortError), Threw(AbortError))
    /\ UNCHANGED <<requestBody, attempts, response, wire, sent, got, delivered>>

\* The pending read rejects with a transport error
ReadFails(r, error) ==
    /\ pc[r] = "read" /\ ~aborted[r]
    /\ HandlerEnds(r, CaughtInHandler(Resume(r, 0), error), Threw(error))
    /\ UNCHANGED <<requestBody, attempts, response, wire, sent, got, delivered>>

----------------------------------------------------------------------------
(* await this.handleStreamResponse(...) *)

\* sendMessage resumes once the promise of handleStreamResponse has settled: it
\* returns, or its catch block handles what the handler threw, and its finally
\* block runs
Unwind(r) ==
    /\ pc[r] = "unwind"
    /\ IF handler[r].kind = "threw"
       THEN LET c == Caught(Resume(r, 0), handler[r].error) IN Settle(r, c.x, c.outcome)
       ELSE Settle(r, Resume(r, 0), Resolved)
    /\ UNCHANGED <<requestBody, attempts, response, wire, sent, got, delivered>>

----------------------------------------------------------------------------
(* await response.text() in handleNonStreamResponse *)

\* The text of the body arrives: the handler runs to its end, and its catch block
\* calls onError and rethrows
BodyTextRead(r, abortAt) ==
    /\ pc[r] = "bodytext"
    /\ LET h == handleNonStreamResponse(Resume(r, abortAt), response[r].text, startedAt[r])
       IN IF h.error = NoError
          THEN ReturnedHandlerEnds(r, h.x, Resolved)
          ELSE ReturnedHandlerEnds(r, Emit(h.x, "onError", h.error), Threw(h.error))
    /\ UNCHANGED <<requestBody, attempts, response, wire, sent, got, delivered>>

\* The promise sendMessage returned settles as the promise of
\* handleNonStreamResponse did: neither the catch block nor the finally block of
\* sendMessage runs, and no callback is invoked
SettleReturned(r) ==
    /\ pc[r] = "adopt"
    /\ pc' = [pc EXCEPT ![r] = "done"]
    /\ outcome' = [outcome EXCEPT ![r] = handler[r]]
    /\ UNCHANGED <<nreq, abortControllers, aborted, key, stream, args, requestBody, attempts,
                   startedAt, response, wire, dec, calls, handler, sent, got, abortedBy,
                   delivered, now>>

----------------------------------------------------------------------------
(* abort *)

Abort(conversationId) ==
    /\ LET a == IF Truthy(conversationId)
                THEN AbortKey(abortControllers, aborted, conversationId)
                ELSE AbortAll(abortControllers, aborted)
       IN /\ abortControllers' = a.reg
          /\ aborted' = a.sig
          /\ abortedBy' = MarkAborted(aborted, a.sig, ByAbort(conversationId))
    /\ UNCHANGED <<nreq, key, stream, args, pc, requestBody, attempts, startedAt, response,
                   wire, dec, calls, outcome, handler, sent, got, delivered, now>>

----------------------------------------------------------------------------
(* Inputs *)

UserHi == [role |-> "user", content |-> <<"h", "i">>]

\* Settings of an external provider
ExternalCfg ==
    [LocalCfg EXCEPT !.apiBaseUrl = HTTPS \o <<"x">>, !.apiKey = <<"k">>]

ChunkA ==
    [Chunk0 EXCEPT !.object = "chat.completion.chunk", !.model = <<"m">>,
                   !.content = <<"A">>]
ChunkB == [Chunk0 EXCEPT !.content = <<"B">>]

\* What response.text() and JSON.parse make of a body: blank when it holds
\* nothing but line ends, JSON when it is one JSON text, and otherwise (lines of
\* an event stream included) text that does not parse
TextOf(body) ==
    LET core == SelectSeq(body, LAMBDA a : a \notin {NL, CR})
    IN IF core = <<>> THEN [form |-> "blank", data |-> Chunk0]
       ELSE IF Len(core) = 1 /\ core[1].t = "json" THEN [form |-> "json", data |-> core[1].v]
       ELSE [form |-> "text", data |-> Chunk0]

\* The body whose text is this: nothing, one JSON text, or text that is not JSON
BodyOf(text) ==
    IF text.form = "blank" THEN <<>>
    ELSE IF text.form = "json" THEN <<Json(text.data)>>
    ELSE <<Junk>>

\* A 2xx response, given by the atoms of its body or by its text
OkStream(body) ==
    [NoResponse EXCEPT !.status = 200, !.hasBody = TRUE, !.body = body, !.text = TextOf(body)]
OkText(text) ==
    [NoResponse EXCEPT !.status = 200, !.hasBody = TRUE, !.body = BodyOf(text), !.text = text]

\* The 2xx responses a server gives call r, in the form the request asked for:
\* an event stream for a streamed call, one JSON text otherwise
Answers(r, streams, texts) ==
    IF Truthy(stream[r]) THEN {OkStream(w) : w \in streams} ELSE {OkText(t) : t \in texts}
\* A response that is not ok: the searched substrings stand in the text of the
\* body outside its message property (Failure) or inside it (FailureIn)
Failure(status, form, has) ==
    [NoResponse EXCEPT !.status = status, !.hasBody = TRUE,
                       !.error = [form |-> form, has |-> has, inMessage |-> {}]]
FailureIn(status, form, has) ==
    [NoResponse EXCEPT !.status = status, !.hasBody = TRUE,
                       !.error = [form |-> form, has |-> has, inMessage |-> has]]

\* The response r with a status text that holds the searched substrings has
StatusText(r, has) == [r EXCEPT !.statusText = has]

FailedToFetch == Err("TypeError", "Failed to fetch", {"fetch"})
NetworkLost == Err("TypeError", "network error", {})

NoBody == [NoResponse EXCEPT !.status = 200]

\* Spec: a complete stream, delivered line by line or at once
LifeStreams == {DataLine(ChunkA) \o DoneLine}
LifeReadSizes == {3, 6}

\* SpecStream: complete streams, streams that end without `data: [DONE]` (one with
\* the terminator left without its newline, one with it on a line that does not
\* start with `data: `, one with it before a carriage return), lines that are not
\* data lines and payloads that are not JSON
Streams ==
    {DataLine(ChunkA) \o DataLine(ChunkB) \o DoneLine,
     DataLine(ChunkA) \o <<Pre, DoneTok>>,
     DataLine(ChunkB),
     <<DoneTok, NL>> \o DataLine(ChunkB),
     DataLine(ChunkB) \o <<Pre, DoneTok, CR, NL>>,
     <<Junk, NL, Pre, Junk, NL>> \o DataLine(ChunkA) \o DoneLine \o DataLine(ChunkB)}

\* SpecThink: the content "A<think>B</think>C" cut into at most MaxDeltas deltas
ThinkContent == <<"A">> \o THINK_OPEN \o <<"B">> \o THINK_CLOSE \o <<"C">>

RECURSIVE CutSets(_)
CutSets(k) ==
    IF k = 0
    THEN {{}}
    ELSE CutSets(k - 1)
         \cup {c \cup {a} : c \in CutSets(k - 1), a \in 1..(Len(ThinkContent) - 1)}

\* The pieces of s between the cut positions (a cut at i falls after s[i])
RECURSIVE Pieces(_, _, _)
Pieces(s, cuts, from) ==
    IF {c \in cuts : c >= from} = {}
    THEN <<SubSeq(s, from, Len(s))>>
    ELSE LET c == CHOOSE a \in cuts : a >= from /\ \A b \in cuts : b >= from => a <= b
         IN <<SubSeq(s, from, c)>> \o Pieces(s, cuts, c + 1)

ContentLine(delta) == DataLine([Chunk0 EXCEPT !.content = delta])

RECURSIVE ContentLines(_)
ContentLines(deltas) ==
    IF deltas = <<>> THEN <<>> ELSE ContentLine(Head(deltas)) \o ContentLines(Tail(deltas))

ThinkStreams ==
    {ContentLines(Pieces(ThinkContent, c, 1)) \o DoneLine : c \in CutSets(MaxDeltas - 1)}

\* SpecRetry: the options, the settings and the responses of the retry loop
RetryOptions ==
    {[stream |-> "false"],
     [stream |-> "false", temperature |-> "1", reasoning_effort |-> "low"],
     [stream |-> "false", reasoning_effort |-> ""],
     [stream |-> "false", reasoning_effort |-> "none", max_tokens |-> "100"],
     [stream |-> "false", reasoning_effort |-> "low", max_tokens |-> "100"],
     [stream |-> "false", reasoning_effort |-> "low", max_tokens |-> "0", top_k |-> "40"],
     [stream |-> "false", reasoning_effort |-> "low", max_completion_tokens |-> "50"]}

ErrorTexts ==
    {{}, {"reasoning_effort"}, {"max_tokens"}, {"reasoning_effort", "max_tokens"},
     {"INVALID_ARGUMENT"}, {"max_completion_tokens", "ECONNREFUSED"}}

TextA == [form |-> "json", data |-> [Chunk0 EXCEPT !.content = <<"A">>]]

RetryResponses ==
    {Failure(400, "error.message", has) : has \in ErrorTexts}
    \cup {Failure(400, "text", {"reasoning_effort"}), Failure(500, "message", {"max_tokens"}),
          Failure(429, "json", {"reasoning_effort"}), Failure(503, "empty", {}),
          Failure(400, "null", {}), FailureIn(500, "message", {"ECONNREFUSED"}),
          StatusText(Failure(502, "text", {}), {"ECONNREFUSED"}),
          StatusText(Failure(400, "empty", {}), {"ETIMEDOUT"}),
          OkText(TextA)}

----------------------------------------------------------------------------
(* Spec: two concurrent streaming calls under the keys c1 and c2, and abort *)

Next ==
    \/ \E c \in {"c1", "c2"} : SendMessage(c, <<UserHi>>, [stream |-> "true"], LocalCfg, 2)
    \/ \E r \in Rid : FetchAborted(r)
    \/ \E r \in Rid, w \in LifeStreams : FetchResponds(r, OkStream(w))
    \/ \E r \in Rid, n \in LifeReadSizes, a \in 0..1 : ReadChunk(r, n, a)
    \/ \E r \in Rid : ReadDone(r, 0)
    \/ \E r \in Rid : Unwind(r)
    \/ \E r \in Rid : ReadAborted(r)
    \/ \E c \in {Undefined, "c1", "c2"} : Abort(c)

Spec == Init /\ [][Next]_vars

----------------------------------------------------------------------------
(* SpecSupersede: up to MaxReq streaming calls for the one key c1 *)

NextSupersede ==
    \/ SendMessage("c1", <<UserHi>>, [stream |-> "true"], LocalCfg, MaxReq)
    \/ \E r \in Rid : FetchAborted(r)
    \/ \E r \in Rid, w \in LifeStreams : FetchResponds(r, OkStream(w))
    \/ \E r \in Rid : ReadChunk(r, 6, 0)
    \/ \E r \in Rid : ReadDone(r, 0)
    \/ \E r \in Rid : Unwind(r)
    \/ \E r \in Rid : ReadAborted(r)
    \/ Abort("c1")

SpecSupersede == Init /\ [][NextSupersede]_vars

----------------------------------------------------------------------------
(* SpecStream: one streaming call, its body cut into reads in every way *)

NextStream ==
    \/ \E c \in {Undefined, "c1"} : SendMessage(c, <<UserHi>>, [stream |-> "true"], LocalCfg, 1)
    \/ \E r \in Rid : FetchAborted(r)
    \/ \E r \in Rid : FetchFails(r, FailedToFetch)
    \/ \E r \in Rid, resp \in {OkStream(w) : w \in Streams} \cup {NoBody} : FetchResponds(r, resp)
    \/ \E r \in Rid, n \in 1..MaxRead, a \in 0..MaxCallbacks : ReadChunk(r, n, a)
    \/ \E r \in Rid, a \in 0..1 : ReadDone(r, a)
    \/ \E r \in Rid : Unwind(r)
    \/ \E r \in Rid : ReadAborted(r)
    \/ \E r \in Rid : ReadFails(r, NetworkLost)
    \/ \E c \in {Undefined, "c1"} : Abort(c)

SpecStream == Init /\ [][NextStream]_vars

----------------------------------------------------------------------------
(* SpecThink: one streaming call whose content holds a think span *)

NextThink ==
    \/ SendMessage("c1", <<UserHi>>, [stream |-> "true"], LocalCfg, 1)
    \/ \E r \in Rid, w \in ThinkStreams : FetchResponds(r, OkStream(w))
    \/ \E r \in Rid : ReadChunk(r, 3, 0)
    \/ \E r \in Rid : ReadDone(r, 0)
    \/ \E r \in Rid : Unwind(r)

SpecThink == Init /\ [][NextThink]_vars

----------------------------------------------------------------------------
(* SpecRetry: one call that is not streamed, and the compatibility retry *)

NextRetry ==
    \/ \E o \in RetryOptions, cfg \in {LocalCfg, ExternalCfg} :
           SendMessage(Undefined, <<UserHi>>, o, cfg, 1)
    \/ \E r \in Rid : FetchAborted(r)
    \/ \E r \in Rid, resp \in RetryResponses : FetchResponds(r, resp)
    \/ \E r \in Rid : ErrorTextRead(r)
    \/ \E r \in Rid : ErrorTextAborted(r)
    \/ \E r \in Rid : ErrorParsed(r)
    \/ \E r \in Rid : ErrorParseAborted(r)
    \/ \E r \in Rid : BodyTextRead(r, 0)
    \/ \E r \in Rid : SettleReturned(r)
    \/ Abort(Undefined)

SpecRetry == Init /\ [][NextRetry]_vars

----------------------------------------------------------------------------
(* Properties: the histories read by the claims *)

\* The callback cb was invoked for call r
HasCall(r, cb) == \E i \in DOMAIN calls[r] : calls[r][i].cb = cb

\* The arguments of the invocations of cb for call r, concatenated in order
ConcatArgs(r, cb) ==
    LET IsCb(c) == c.cb = cb
        sel == SelectSeq(calls[r], IsCb)
    IN Flatten([i \in DOMAIN sel |-> sel[i].arg])

\* The text holds a complete line that is exactly `data: [DONE]`
HasDoneLine(text) ==
    \E i \in 1..(Len(text) - 2) :
        /\ text[i] = Pre /\ text[i + 1] = DoneTok /\ text[i + 2] = NL
        /\ (i = 1 \/ text[i - 1] = NL)

\* Call r is suspended at one of its awaits: sendMessage has not settled
InFlight(r) == pc[r] \notin {"idle", "done"}

\* A callback of call r was invoked while its abort signal was set
LateCalls(r) == {calls[r][i].cb : i \in {j \in DOMAIN calls[r] : calls[r][j].late}}

----------------------------------------------------------------------------
(* C1 to C5: the stream decoder and cancellation (SpecStream, SpecThink, Spec) *)

\* C1: onComplete is invoked for a streaming call only if a complete line exactly
\* equal to `data: [DONE]` was delivered; a body that ends without one (also one
\* whose last `data: [DONE]` has no newline after it) never completes the call.
C1_CompleteOnlyAfterDoneLine ==
    \A r \in Rid : HasCall(r, "onComplete") => HasDoneLine(delivered[r])

\* The body ended with `data: [DONE]` left in the partial-line buffer, and the call
\* resolved without onComplete
C1_Witness ==
    \E r \in Rid :
        /\ pc[r] = "done" /\ ~aborted[r] /\ outcome[r] = Resolved
        /\ wire[r] = <<>> /\ Len(delivered[r]) >= 2
        /\ SubSeq(delivered[r], Len(delivered[r]) - 1, Len(delivered[r])) = <<Pre, DoneTok>>
        /\ HasCall(r, "onChunk") /\ ~HasCall(r, "onComplete")

\* C2 as stated: however "A<think>B</think>C" is split into content deltas, once
\* the stream has ended the onChunk arguments concatenate to "AC" and the
\* onReasoningChunk arguments to "B".
C2_Original ==
    \A r \in Rid :
        pc[r] = "done" =>
            /\ ConcatArgs(r, "onChunk") = <<"A", "C">>
            /\ ConcatArgs(r, "onReasoningChunk") = <<"B">>

\* C3 as stated: with one call for c1 and one for c2, after abort("c1") no callback
\* of the c1 call is invoked any more, the c2 call is not aborted by it and stays
\* registered, and the c2 call completes when its stream delivers `data: [DONE]`.
C3_Original ==
    \A r1, r2 \in Rid :
        key[r1] = "c1" /\ key[r2] = "c2" /\ abortedBy[r1] = ByAbort("c1") =>
            /\ LateCalls(r1) = {}
            /\ abortedBy[r2] # ByAbort("c1")
            /\ (InFlight(r2) /\ ~aborted[r2] => abortControllers["c2"] = r2)
            /\ (pc[r2] = "done" /\ ~aborted[r2] /\ wire[r2] = <<>>
                    /\ HasDoneLine(delivered[r2]) => HasCall(r2, "onComplete"))

\* C4 as stated: no content, reasoning, tool-call, first-chunk, model or completion
\* callback of a streaming call is invoked once its abort signal is set.
C4_Original ==
    \A r \in Rid :
        LateCalls(r) \cap {"onChunk", "onReasoningChunk", "onToolCallChunk",
                           "onFirstValidChunk", "onModel", "onComplete"} = {}

\* C5 as stated: a call that was aborted while suspended resolves without throwing,
\* and neither onError nor onComplete is invoked once the signal is set.
C5_Original ==
    \A r \in Rid :
        pc[r] = "done" /\ aborted[r] =>
            /\ outcome[r] = Resolved
            /\ LateCalls(r) \cap {"onError", "onComplete"} = {}

----------------------------------------------------------------------------
(* C6 and C7: the registry of abort controllers (SpecSupersede, Spec) *)

\* C6 as stated: at no time are two calls for the same key both in flight with
\* neither of them aborted.
C6_Original ==
    \A r1, r2 \in Rid :
        r1 # r2 /\ InFlight(r1) /\ InFlight(r2) /\ key[r1] = key[r2] =>
            aborted[r1] \/ aborted[r2]

\* What abort(c) may change: with a key, the entry of that key is removed, the
\* controller it held is aborted and nothing else changes; without a key every
\* registered controller is aborted and the registry is left empty.
AbortEffect(c) ==
    IF c # Undefined
    THEN /\ abortControllers'[c] = 0
         /\ \A k \in Keys \ {c} : abortControllers'[k] = abortControllers[k]
         /\ \A r \in Rid : aborted'[r] = (aborted[r] \/ abortControllers[c] = r)
    ELSE /\ \A k \in Keys : abortControllers'[k] = 0
         /\ \A r \in Rid :
                aborted'[r] = (aborted[r] \/ \E k \in Keys : abortControllers[k] = r)

\* C7: abort(k) aborts only the controller registered under k and removes only
\* that entry; abort() aborts every registered controller and empties the registry.
C7_AbortFrame ==
    [][\A c \in {Undefined, "c1", "c2"} : Abort(c) => AbortEffect(c)]_vars

\* abort("c1") has aborted the c1 call while the c2 call is still registered and
\* not aborted
C7_Witness ==
    \E r1, r2 \in Rid :
        /\ key[r1] = "c1" /\ key[r2] = "c2"
        /\ abortedBy[r1] = ByAbort("c1") /\ abortControllers["c1"] = 0
        /\ InFlight(r2) /\ ~aborted[r2] /\ abortControllers["c2"] = r2

----------------------------------------------------------------------------
(* C8 to C10: the retry loop (SpecRetry) *)

\* The response of the i-th fetch of call r was not ok
Failed(r, i) == i \in DOMAIN got[r] /\ got[r][i].status \notin 200..299

\* sendMessage of call r threw an error after passing it to onError
Surfaced(r) ==
    /\ outcome[r].kind = "threw"
    /\ \E i \in DOMAIN calls[r] :
           calls[r][i].cb = "onError" /\ calls[r][i].arg = outcome[r].error

\* C8 as stated: at most two fetches are issued for a call.
C8_Original == \A r \in Rid : Len(sent[r]) <= 2

\* The first response of call r was a 400 whose text, once read, names
\* reasoning_effort, and the first body sent had that field
EffortRejected(r) ==
    /\ got[r] # <<>> /\ got[r][1].status = 400 /\ got[r][1].textRead
    /\ "reasoning_effort" \in got[r][1].errorText
    /\ "reasoning_effort" \in DOMAIN sent[r][1].body

\* The body b2 is the body b1 with max_tokens renamed to max_completion_tokens
Renamed(b1, b2) ==
    /\ "max_tokens" \in DOMAIN b1 /\ "max_tokens" \notin DOMAIN b2
    /\ "max_completion_tokens" \in DOMAIN b2
    /\ b2["max_completion_tokens"] = b1["max_tokens"]

\* The bodies agree on every field but reasoning_effort, up to the rename
SameButEffort(b1, b2) ==
    LET F1 == DOMAIN b1 \ {"reasoning_effort"}
        F2 == DOMAIN b2 \ {"reasoning_effort"}
        T == {"max_tokens", "max_completion_tokens"}
    IN /\ F1 \ T = F2 \ T
       /\ \A f \in F1 \ T : b1[f] = b2[f]
       /\ \/ Renamed(b1, b2)
          \/ F1 \cap T = F2 \cap T /\ \A f \in F1 \cap T : b1[f] = b2[f]

\* C9 as stated: after such a 400 exactly one retry is issued, its body has no
\* reasoning_effort and is otherwise the first body, up to the max_tokens rename.
C9_Original ==
    \A r \in Rid :
        EffortRejected(r) =>
            /\ Len(sent[r]) = 2
            /\ "reasoning_effort" \notin DOMAIN sent[r][2].body
            /\ SameButEffort(sent[r][1].body, sent[r][2].body)

\* The text names what the reasoning_effort check of the retry loop looks for
NamesEffort(errorText) ==
    errorText \cap {"Thinking is not enabled", "reasoning_effort", "INVALID_ARGUMENT"} # {}

\* The text names what the max_tokens check of the retry loop looks for
NamesMaxTokens(errorText) ==
    errorText \cap {"max_tokens", "max_completion_tokens"} # {}

\* The first response of call r is an error that no check of the retry loop
\* applies to: not a 400, or a 400 whose text matches no check whose field is in
\* the first body sent
NotRetryable(r) ==
    /\ Failed(r, 1)
    /\ \/ got[r][1].status # 400
       \/ /\ ~(NamesEffort(got[r][1].errorText)
                   /\ "reasoning_effort" \in DOMAIN sent[r][1].body)
          /\ ~(NamesMaxTokens(got[r][1].errorText)
                   /\ "max_tokens" \in DOMAIN sent[r][1].body)

\* C10: after a first response that is not a 400, or a 400 that no retry check
\* applies to, exactly one fetch is issued, and when the call has settled the
\* error was passed to onError and thrown.
C10_NoRetry ==
    \A r \in Rid :
        NotRetryable(r) => Len(sent[r]) = 1 /\ (pc[r] = "done" => Surfaced(r))

\* A 400 that names reasoning_effort answered a body without that field, and the
\* call threw after its only fetch
C10_Witness ==
    \E r \in Rid :
        /\ NotRetryable(r) /\ got[r][1].status = 400 /\ got[r][1].textRead
        /\ "reasoning_effort" \in got[r][1].errorText
        /\ pc[r] = "done" /\ Len(sent[r]) = 1 /\ Surfaced(r)

----------------------------------------------------------------------------
(* SpecTools: one streaming call whose chunks carry tool-call deltas, content
   and reasoning, read line by line *)

\* ApiChatCompletionToolCallDelta
Delta(index, id, type, fn) == [index |-> index, id |-> id, type |-> type, function |-> fn]
Fn(name, arguments) == [def |-> TRUE, name |-> name, arguments |-> arguments]

\* The fragments of a tool call: the opening one, one with arguments only, one
\* with another name and arguments, one without a function; the last has no index
Fragments ==
    {Delta(0, "a", "function", Fn("f", <<"x">>)),
     Delta(0, "", "", Fn("", <<"y">>)),
     Delta(0, "", "", Fn("g", <<"z">>)),
     Delta(0, "b", "", NoFunction),
     Delta(1, "a", "function", Fn("f", <<"x">>)),
     Delta(1, "", "", Fn("", <<"y">>)),
     Delta(-1, "", "", Fn("", <<"w">>))}

ToolChunk(deltas) == [Chunk0 EXCEPT !.tool_calls = deltas]

\* The chunks of SpecTools
ToolChunks ==
    {ToolChunk(<<f>>) : f \in Fragments}
    \cup {ToolChunk(<<Delta(0, "a", "", Fn("f", <<"x">>)), Delta(0, "", "", Fn("", <<"y">>))>>),
          [ToolChunk(<<Delta(0, "c", "", Fn("h", <<"v">>))>>) EXCEPT !.content = <<"A">>],
          [Chunk0 EXCEPT !.content = <<"A">>],
          [Chunk0 EXCEPT !.reasoning_content = <<"R">>]}

\* The sequences of at most n elements of S
RECURSIVE SeqsUpTo(_, _)
SeqsUpTo(S, n) ==
    IF n = 0
    THEN {<<>>}
    ELSE LET shorter == SeqsUpTo(S, n - 1)
         IN shorter \cup {Append(q, e) : q \in shorter, e \in S}

RECURSIVE DataLines(_)
DataLines(chunks) ==
    IF chunks = <<>> THEN <<>> ELSE DataLine(Head(chunks)) \o DataLines(Tail(chunks))

ToolStreams == {DataLines(q) \o DoneLine : q \in SeqsUpTo(ToolChunks, MaxDeltas) \ {<<>>}}

NextTools ==
    \/ SendMessage("c1", <<UserHi>>, [stream |-> "true"], LocalCfg, 1)
    \/ \E r \in Rid : pc[r] = "fetch" /\ \E w \in ToolStreams : FetchResponds(r, OkStream(w))
    \/ \E r \in Rid : ReadChunk(r, 3, 0)
    \/ \E r \in Rid : ReadDone(r, 0)
    \/ \E r \in Rid : Unwind(r)

SpecTools == Init /\ [][NextTools]_vars

----------------------------------------------------------------------------
(* C11 and C12: tool-call deltas (SpecTools) *)

\* The chunks delivered to call r so far, in order
IsJson(a) == a.t = "json"
ChunksOf(r) ==
    LET js == SelectSeq(delivered[r], IsJson) IN [k \in DOMAIN js |-> js[k].v]

\* The tool-call deltas of a sequence of chunks, in order
DeltasOf(chunks) == Flatten([k \in DOMAIN chunks |-> chunks[k].tool_calls])

\* The chunks are tool-call chunks only, and all their deltas carry the index i
SameIndexBurst(chunks, i) ==
    /\ chunks # <<>>
    /\ \A k \in DOMAIN chunks :
           /\ chunks[k].content = <<>> /\ ReasoningOf(chunks[k]) = <<>>
           /\ chunks[k].tool_calls # <<>>
    /\ \A k \in DOMAIN DeltasOf(chunks) : DeltasOf(chunks)[k].index = i

\* The last value of the sequence that is not blank, blank if there is none
LastSet(values, blank) ==
    LET set == {k \in DOMAIN values : values[k] # blank}
    IN IF set = {} THEN blank ELSE values[CHOOSE k \in set : \A j \in set : j <= k]

\* The one tool call the fragments describe
MergedCall(frags) ==
    [id |-> LastSet([k \in DOMAIN frags |-> frags[k].id], ""),
     type |-> LastSet([k \in DOMAIN frags |-> frags[k].type], ""),
     function |->
         IF \A k \in DOMAIN frags : ~frags[k].function.def
         THEN NoFunction
         ELSE [def |-> TRUE,
               name |-> LastSet([k \in DOMAIN frags |-> frags[k].function.name], ""),
               arguments |-> Flatten([k \in DOMAIN frags |-> frags[k].function.arguments])]]

\* The last argument callback cb of call r was invoked with
LastArg(r, cb) ==
    LET IsCb(c) == c.cb = cb
        sel == SelectSeq(calls[r], IsCb)
    IN sel[Len(sel)].arg

\* C11: while the chunks of a stream are tool-call fragments that all carry the
\* index i, the accumulated list holds, at position i, one tool call whose
\* arguments are the fragments' arguments concatenated in arrival order and whose
\* id, type and name are the last ones a fragment carried; the positions before it
\* are empty placeholders, and that list is what onToolCallChunk and onComplete
\* receive.
C11_FragmentsMergeIntoOneCall ==
    \A r \in Rid, i \in 0..1 :
        pc[r] \in {"read", "unwind", "done"} /\ SameIndexBurst(ChunksOf(r), i) =>
            LET merged == [k \in 1..(i + 1) |->
                              IF k <= i THEN EmptyToolCall
                              ELSE MergedCall(DeltasOf(ChunksOf(r)))]
            IN /\ dec[r].aggregatedToolCalls = merged
               /\ LastArg(r, "onToolCallChunk") = Stringify(merged)
               /\ (HasCall(r, "onComplete") =>
                       LastArg(r, "onComplete").toolCalls = Stringify(merged))

\* Three fragments of the call at index 0 were merged: the arguments are "xyz", the
\* name is the last one carried and the id and type of the first fragment are kept
C11_Witness ==
    \E r \in Rid :
        /\ pc[r] = "done" /\ HasCall(r, "onComplete")
        /\ Len(ChunksOf(r)) = 3 /\ SameIndexBurst(ChunksOf(r), 0)
        /\ LastArg(r, "onComplete").toolCalls.json =
               <<[id |-> "a", type |-> "function",
                  function |-> [def |-> TRUE, name |-> "g", arguments |-> <<"x", "y", "z">>]]>>

\* s is a prefix of t
IsPrefix(s, t) == Len(s) <= Len(t) /\ SubSeq(t, 1, Len(s)) = s

\* In the callbacks cs of one call: the tool-call list never shrinks, and the
\* list accumulated when a content or reasoning callback arrives (the last one
\* reported before it) is a prefix of every list reported after it
ToolCallsKept(cs) ==
    \A a, c \in DOMAIN cs :
        a < c /\ cs[a].cb = "onToolCallChunk" /\ cs[c].cb = "onToolCallChunk" =>
            /\ Len(cs[a].arg.json) <= Len(cs[c].arg.json)
            /\ (\E b \in (a + 1)..(c - 1) :
                    /\ cs[b].cb \in {"onChunk", "onReasoningChunk"}
                    /\ \A m \in (a + 1)..(b - 1) : cs[m].cb # "onToolCallChunk")
                   => IsPrefix(cs[a].arg.json, cs[c].arg.json)

\* Call r reads one line, the chunk c
ReadsChunk(r, c) ==
    /\ pc[r] = "read" /\ ~aborted[r]
    /\ delivered'[r] = delivered[r] \o DataLine(c)

\* Content or reasoning has arrived since the last tool-call delta, or arrives
\* in the chunk c itself before its tool-call delta is merged
ContentResumed(r, c) ==
    /\ dec[r].aggregatedToolCalls # <<>>
    /\ \/ c.content # <<>> \/ ReasoningOf(c) # <<>>
       \/ calls[r][Len(calls[r])].cb \in {"onChunk", "onReasoningChunk"}

\* C12: once content or reasoning has arrived after tool-call deltas, a delta with
\* index i is merged at position i plus the number of calls accumulated until
\* then, the calls accumulated until then stay as they are, and the list the
\* callbacks see never shrinks.
C12_ClosedBatchIsKept ==
    [][\A r \in Rid :
           /\ ToolCallsKept(calls'[r])
           /\ \A f \in Fragments :
                  f.index >= 0 /\ ContentResumed(r, ToolChunk(<<f>>))
                  /\ ReadsChunk(r, ToolChunk(<<f>>)) =>
                      LET n == Len(dec[r].aggregatedToolCalls)
                      IN dec'[r].aggregatedToolCalls =
                             [k \in 1..(n + f.index + 1) |->
                                 IF k <= n THEN dec[r].aggregatedToolCalls[k]
                                 ELSE IF k <= n + f.index THEN EmptyToolCall
                                 ELSE MergedCall(<<f>>)]]_vars

\* A call was opened at index 0, content arrived, and a second delta with index 0
\* opened a second call instead of changing the first
C12_Witness ==
    \E r \in Rid :
        /\ pc[r] = "done" /\ Len(ChunksOf(r)) = 3
        /\ ChunksOf(r)[1] = ToolChunk(<<Delta(0, "a", "function", Fn("f", <<"x">>))>>)
        /\ ChunksOf(r)[2] = [Chunk0 EXCEPT !.content = <<"A">>]
        /\ ChunksOf(r)[3] = ToolChunk(<<Delta(0, "", "", Fn("", <<"y">>))>>)
        /\ LastArg(r, "onComplete").toolCalls.json =
               <<[id |-> "a", type |-> "function", function |-> Fn("f", <<"x">>)],
                 [id |-> "", type |-> "", function |-> Fn("", <<"y">>)]>>

----------------------------------------------------------------------------
(* SpecTimings: one call, streamed or not, while the clock advances *)

\* Date.now() advances by n milliseconds while a call is in flight
Tick(n) ==
    /\ now + n <= MaxNow
    /\ \E r \in Rid : pc[r] \notin {"idle", "done"}
    /\ now' = now + n
    /\ UNCHANGED <<nreq, abortControllers, aborted, key, stream, args, pc, requestBody, attempts,
                   startedAt, response, wire, dec, calls, outcome, handler, sent, got,
                   abortedBy, delivered>>

UsageA == [def |-> TRUE, prompt_tokens |-> 10, completion_tokens |-> 90]
NativeTimings ==
    [def |-> TRUE, prompt_n |-> 1, prompt_ms |-> 2, predicted_n |-> 3, predicted_ms |-> 4]

\* Chunks with content, with usage on the chunk of the finish reason, with usage on
\* a chunk of its own (no finish reason) and with the timings of the server
TimingChunks ==
    {ChunkB,
     [Chunk0 EXCEPT !.usage = UsageA, !.finish_reason = "stop"],
     [Chunk0 EXCEPT !.usage = UsageA],
     [Chunk0 EXCEPT !.timings = NativeTimings]}

TimingStreams == {DataLines(q) \o DoneLine : q \in SeqsUpTo(TimingChunks, MaxDeltas) \ {<<>>}}

\* Bodies of a response that is not streamed: content with and without usage, an
\* empty body, content that is absent or white space (alone, with reasoning, with
\* usage, with a tool call) and text that is not JSON
TimingTexts ==
    {TextA, [TextA EXCEPT !.data.usage = UsageA],
     [form |-> "blank", data |-> Chunk0],
     [form |-> "text", data |-> Chunk0],
     [TextA EXCEPT !.data.content = <<>>],
     [TextA EXCEPT !.data.content = <<" ", "\f", "\n">>],
     [TextA EXCEPT !.data.content = <<>>, !.data.reasoning_content = <<"R">>],
     [TextA EXCEPT !.data.content = <<" ">>, !.data.usage = UsageA, !.data.model = <<"m">>],
     [TextA EXCEPT !.data.content = <<" ">>,
                   !.data.tool_calls = <<Delta(0, "a", "function", Fn("f", <<"x">>))>>]}

NextTimings ==
    \/ \E v \in {"true", "false"} : SendMessage("c1", <<UserHi>>, [stream |-> v], LocalCfg, 1)
    \/ \E r \in Rid :
           /\ pc[r] = "fetch"
           /\ \E resp \in Answers(r, TimingStreams, TimingTexts) : FetchResponds(r, resp)
    \/ \E r \in Rid : ReadChunk(r, 3, 0)
    \/ \E r \in Rid : ReadDone(r, 0)
    \/ \E r \in Rid : Unwind(r)
    \/ \E r \in Rid : BodyTextRead(r, 0)
    \/ \E r \in Rid : SettleReturned(r)
    \/ \E n \in {1, 4} : Tick(n)

SpecTimings == Init /\ [][NextTimings]_vars

----------------------------------------------------------------------------
(* C13: timings derived from usage (SpecTimings) *)

\* The step is the one in which call r invokes onComplete
Completes(r) ==
    /\ Len(calls'[r]) > Len(calls[r])
    /\ calls'[r][Len(calls'[r])].cb = "onComplete"

\* The response of call r carries usage counts: on some chunk of the stream, or in
\* the body that is not streamed
UsageSupplied(r) ==
    IF Truthy(stream[r])
    THEN \E i \in DOMAIN ChunksOf(r) : ChunksOf(r)[i].usage.def
    ELSE response[r].text.data.usage.def

\* The usage counts are captured: in a stream they are on a chunk that also
\* carries a finish reason
UsageCaptured(r) ==
    IF Truthy(stream[r])
    THEN \E i \in DOMAIN ChunksOf(r) :
             ChunksOf(r)[i].usage.def /\ ChunksOf(r)[i].finish_reason # ""
    ELSE response[r].text.data.usage.def

\* No chunk of the stream carries the timings of the server
NoNativeTimings(r) ==
    Truthy(stream[r]) => \A i \in DOMAIN ChunksOf(r) : ~ChunksOf(r)[i].timings.def

\* The milliseconds elapsed when call r completes: since the stream handler
\* started, or since the request was built when the response is not streamed
Elapsed(r) == IF Truthy(stream[r]) THEN now - dec[r].startTime ELSE now - startedAt[r]

\* The timings passed to onComplete are derived from the usage counts (10 and 90)
\* and split the elapsed time
DerivedTimings(r) ==
    LET t == calls'[r][Len(calls'[r])].arg.timings
    IN /\ t.def
       /\ t.prompt_n = UsageA.prompt_tokens
       /\ t.predicted_n = UsageA.completion_tokens
       /\ t.prompt_ms + t.predicted_ms <= Elapsed(r)
       /\ Elapsed(r) - (t.prompt_ms + t.predicted_ms) <= 1
       /\ (Truthy(stream[r]) /\ dec[r].firstTokenTime # 0)
              => t.prompt_ms + t.predicted_ms = Elapsed(r)

\* C13 as stated: whenever the response supplies usage counts and no native
\* timings, onComplete receives the timings derived from them.
C13_Original ==
    [][\A r \in Rid : Completes(r) /\ UsageSupplied(r) /\ NoNativeTimings(r)
                          => DerivedTimings(r)]_vars

\* C13: when the usage counts are captured (in a stream: they arrive on a chunk
\* that also carries a finish reason) and no native timings were seen, onComplete
\* receives prompt_n and predicted_n equal to the usage counts and prompt_ms +
\* predicted_ms within 1 ms below the elapsed time (equal to it when a first-token
\* time was recorded), streamed or not.
C13_TimingsFromCapturedUsage ==
    [][\A r \in Rid : Completes(r) /\ UsageCaptured(r) /\ NoNativeTimings(r)
                          => DerivedTimings(r)]_vars

\* A stream without content completed 5 ms after its handler started: the split
\* is 0 ms + 4 ms, one millisecond short of the elapsed time
C13_Witness ==
    \E r \in Rid :
        /\ pc[r] = "done" /\ Truthy(stream[r]) /\ HasCall(r, "onComplete")
        /\ dec[r].firstTokenTime = 0
        /\ LastArg(r, "onComplete").timings =
               [def |-> TRUE, prompt_n |-> 10, prompt_ms |-> 0,
                predicted_n |-> 90, predicted_ms |-> 4]

----------------------------------------------------------------------------
(* C14: an empty response that is not streamed (SpecTimings) *)

\* Call r is not streamed and got a 2xx response whose body is empty, or whose
\* content is empty or white space and which has no tool calls
EmptyReply(r) ==
    /\ ~Truthy(stream[r])
    /\ response[r].status \in 200..299
    /\ \/ response[r].text.form = "blank"
       \/ /\ response[r].text.form = "json"
          /\ \A i \in DOMAIN response[r].text.data.content :
                 response[r].text.data.content[i] \in WhiteSpace
          /\ response[r].text.data.tool_calls = <<>>

\* The callbacks of call r named cb
CallsOf(r, cb) == SelectSeq(calls[r], LAMBDA c : c.cb = cb)

\* C14: a call that is not streamed and receives an empty 2xx response ends by
\* throwing an error; onError was invoked once, with that error, and onComplete
\* was not invoked.
C14_EmptyReplyThrows ==
    \A r \in Rid :
        pc[r] = "done" /\ EmptyReply(r) =>
            /\ outcome[r].kind = "threw"
            /\ Len(CallsOf(r, "onError")) = 1
            /\ CallsOf(r, "onError")[1].arg = outcome[r].error
            /\ ~HasCall(r, "onComplete")

\* The content of the reply was white space: the call threw the error
\* "No response received from server" after passing it to onError
C14_Witness ==
    \E r \in Rid :
        /\ pc[r] = "done" /\ EmptyReply(r)
        /\ response[r].text.data.content = <<" ", "\f", "\n">>
        /\ outcome[r] = Threw(NoResponseError)
        /\ calls[r] = <<[cb |-> "onError", arg |-> NoResponseError, late |-> FALSE]>>

----------------------------------------------------------------------------
(* SpecRequest: one call, its request body and its endpoint *)

\* The caller's list: empty, starting with a user message, with a system message
\* (different from the configured one, identical to it, blank) or with a system
\* message that is not the first
RequestMessages ==
    {<<>>, <<UserHi>>, <<SystemMsg(<<"S">>), UserHi>>, <<SystemMsg(<<"P">>), UserHi>>,
     <<SystemMsg(<<"\f", " ">>), UserHi, SystemMsg(<<>>)>>, <<UserHi, SystemMsg(<<"S">>)>>}

\* options: nothing set, the token limits in every combination of undefined,
\* null, 0, -1 and a number, sampling options, and custom JSON (with fields on
\* and off the list of standard fields, with a messages field, not parseable)
RequestOptions ==
    {[stream |-> v] : v \in {Undefined, "true", "false"}}
    \cup {[stream |-> "false", max_tokens |-> v, max_completion_tokens |-> w] :
              v \in {Undefined, Null, "0", "-1", "100"},
              w \in {Undefined, Null, "0", "-1", "50"}}
    \cup {[stream |-> "false", max_tokens |-> "100", reasoning_effort |-> "low"],
          [stream |-> "true", temperature |-> "1", top_k |-> "40", reasoning_effort |-> "none",
           samplers |-> [isString |-> TRUE, parts |-> <<<<"t">>, <<" ">>>>]],
          [stream |-> "false", reasoning_effort |-> "low",
           custom |-> [parses |-> TRUE,
                       fields |-> [max_tokens |-> "-1", top_k |-> "40", stop |-> "x",
                                   cache_prompt |-> "true"]]],
          [stream |-> "false",
           custom |-> [parses |-> TRUE, fields |-> [messages |-> <<UserHi>>]]],
          [stream |-> "false", max_tokens |-> "100",
           custom |-> [parses |-> FALSE, fields |-> [top_k |-> "40"]]]}

\* config(): the base URL empty, blank, `.`, a path, a slash, an http(s) URL with
\* and without a slash at its end, the bare schemes http:// and https://; a
\* system message; a selected model
RequestCfgs ==
    {LocalCfg, ExternalCfg,
     [LocalCfg EXCEPT !.apiBaseUrl = HTTP],
     [LocalCfg EXCEPT !.apiBaseUrl = HTTPS],
     [LocalCfg EXCEPT !.apiBaseUrl = <<" ">>],
     [LocalCfg EXCEPT !.apiBaseUrl = DOT],
     [LocalCfg EXCEPT !.apiBaseUrl = <<"/", "a">>],
     [LocalCfg EXCEPT !.apiBaseUrl = <<"/">>],
     [LocalCfg EXCEPT !.apiBaseUrl = <<"a">>],
     [LocalCfg EXCEPT !.apiBaseUrl = HTTP \o <<"x", "/">>],
     [LocalCfg EXCEPT !.systemMessage = <<"\f", "P", " ">>],
     [ExternalCfg EXCEPT !.systemMessage = <<"P">>, !.disableReasoningFormat = TRUE],
     [LocalCfg EXCEPT !.systemMessage = <<" ">>, !.disableReasoningFormat = TRUE],
     [LocalCfg EXCEPT !.modelSelectorEnabled = TRUE, !.selectedModel = "m"],
     [ExternalCfg EXCEPT !.modelSelectorEnabled = TRUE]}

\* Responses: 400 naming a parameter (the retry check)
RequestResponses ==
    {Failure(400, "error.message", has) :
         has \in {{"reasoning_effort"}, {"max_tokens"}, {"reasoning_effort", "max_tokens"}}}

NextRequest ==
    \/ \E m \in RequestMessages, o \in RequestOptions, cfg \in RequestCfgs :
           SendMessage("c1", m, o, cfg, 1)
    \/ \E r \in Rid :
           /\ pc[r] = "fetch"
           /\ \E resp \in RequestResponses \cup Answers(r, {<<>>}, {TextA}) : FetchResponds(r, resp)
    \/ \E r \in Rid : ErrorTextRead(r)
    \/ \E r \in Rid : ErrorParsed(r)
    \/ \E r \in Rid : BodyTextRead(r, 0)
    \/ \E r \in Rid : SettleReturned(r)
    \/ \E r \in Rid : ReadDone(r, 0)
    \/ \E r \in Rid : Unwind(r)

SpecRequest == Init /\ [][NextRequest]_vars

----------------------------------------------------------------------------
(* C15: the body when nothing is set (SpecRequest) *)

\* sendMessage was called for r
Called(r) == pc[r] # "idle"

\* Every option of call r but stream is undefined, there is no custom JSON and the
\* model selector is off
AllUnset(r) ==
    /\ DOMAIN args[r].options \cap {"custom", "samplers"} = {}
    /\ \A f \in DOMAIN args[r].options \ {"stream"} : args[r].options[f] = Undefined
    /\ ~args[r].cfg.modelSelectorEnabled

\* The condition of the claims: the configured base URL of call r begins with
\* http:// or https://. It is weaker than isExternalApi, which looks at the base
\* once the slash at its end is removed
HttpBase(r) ==
    LET u == TrimStart(args[r].cfg.apiBaseUrl)
    IN \/ Len(u) >= Len(HTTP) /\ SubSeq(u, 1, Len(HTTP)) = HTTP
       \/ Len(u) >= Len(HTTPS) /\ SubSeq(u, 1, Len(HTTPS)) = HTTPS

\* The body of the i-th fetch of call r, as written on the wire
Body(r, i) == sent[r][i].body

\* C15 as stated: with nothing set the body on the wire has exactly the fields
\* messages and stream.
C15_Original ==
    \A r \in Rid : Called(r) /\ AllUnset(r) => DOMAIN Body(r, 1) = {"messages", "stream"}

----------------------------------------------------------------------------
(* C16: the body sent to an external provider (SpecRequest) *)

\* The fields an external provider may be sent
AllowList ==
    {"messages", "model", "stream", "temperature", "top_p", "presence_penalty",
     "max_tokens", "max_completion_tokens", "reasoning_effort", "stop", "tools",
     "tool_choice", "response_format", "n", "logit_bias", "user"}

\* C16 as stated: when the configured base URL begins with http:// or https://,
\* the body of every fetch of the call, first attempt and retries, has only
\* fields of the allow-list and no max_tokens equal to -1.
C16_Original ==
    \A r \in Rid :
        Called(r) /\ HttpBase(r) =>
            \A i \in DOMAIN sent[r] :
                /\ DOMAIN Body(r, i) \subseteq AllowList
                /\ "max_tokens" \in DOMAIN Body(r, i) => Body(r, i).max_tokens # "-1"

----------------------------------------------------------------------------
(* C17: the configured system message (SpecRequest) *)

\* The string is empty or white space
Blank(str) == \A i \in DOMAIN str : str[i] \in WhiteSpace

\* The custom JSON of call r parses and sets the field f
CustomSets(r, f) ==
    /\ "custom" \in DOMAIN args[r].options
    /\ args[r].options.custom.parses
    /\ f \in DOMAIN args[r].options.custom.fields

\* The caller's messages that are sent besides the system message: system
\* messages without text are dropped, and so is a system message at the head
CallerRest(r) ==
    LET kept == SelectSeq(args[r].messages,
                          LAMBDA m : ~(m.role = "system" /\ Blank(m.content)))
    IN IF kept # <<>> /\ kept[1].role = "system" THEN Tail(kept) ELSE kept

\* The messages of the i-th fetch of call r start with the configured system message
SystemFirst(r, i) ==
    /\ Body(r, i).messages # <<>>
    /\ Body(r, i).messages[1] =
           [role |-> "system", content |-> Trim(args[r].cfg.systemMessage)]

\* C17 as stated: with a configured system message, the first of the sent
\* messages is always that message.
C17_Original ==
    \A r \in Rid :
        Called(r) /\ ~Blank(args[r].cfg.systemMessage) =>
            \A i \in DOMAIN sent[r] : SystemFirst(r, i)

\* C17: with a configured system message and no custom JSON that sets messages,
\* every fetch of the call sends the trimmed system message first, followed by the
\* caller's messages in their order, without the system messages that have no
\* text and without a system message that was at the head of the list.
C17_SystemMessageFirst ==
    \A r \in Rid :
        Called(r) /\ ~Blank(args[r].cfg.systemMessage) /\ ~CustomSets(r, "messages") =>
            \A i \in DOMAIN sent[r] :
                SystemFirst(r, i) /\ Tail(Body(r, i).messages) = CallerRest(r)

\* The caller's list started with another system message: it was replaced by the
\* configured one, trimmed
C17_Witness ==
    \E r \in Rid :
        /\ Called(r)
        /\ args[r].cfg.systemMessage = <<"\f", "P", " ">>
        /\ args[r].messages = <<SystemMsg(<<"S">>), UserHi>>
        /\ Body(r, 1).messages = <<SystemMsg(<<"P">>), UserHi>>

----------------------------------------------------------------------------
(* C18: the endpoint (SpecRequest) *)

\* The configured base URL of call r, trimmed
BaseOf(r) == Trim(args[r].cfg.apiBaseUrl)

\* The base URL without the slash at its end
Stripped(u) == IF u # <<>> /\ u[Len(u)] = "/" THEN SubSeq(u, 1, Len(u) - 1) ELSE u

\* The classic relative path ./v1/chat/completions
Classic == [base |-> <<".">>, path |-> "/v1/chat/completions"]

\* The first body of call r went through no filter: reasoning_format is there, and
\* so is a non-standard field of the custom JSON
Unfiltered(r) ==
    /\ "reasoning_format" \in DOMAIN Body(r, 1)
    /\ CustomSets(r, "cache_prompt") => "cache_prompt" \in DOMAIN Body(r, 1)

\* The base URL of call r is empty, `.` or begins with a slash
LocalBase(r) == BaseOf(r) = <<>> \/ BaseOf(r) = <<".">> \/ BaseOf(r)[1] = "/"

\* C18 as stated: a base URL that is empty, `.` or begins with a slash sends the
\* request to ./v1/chat/completions with an unfiltered body; a base URL that
\* begins with http:// or https:// is treated as external (its body is filtered)
\* and sends it to <baseUrl>/chat/completions.
C18_Original ==
    \A r \in Rid :
        Called(r) =>
            /\ LocalBase(r) => sent[r][1].url = Classic /\ Unfiltered(r)
            /\ HttpBase(r) =>
                   /\ sent[r][1].url =
                          [base |-> Stripped(BaseOf(r)), path |-> "/chat/completions"]
                   /\ DOMAIN Body(r, 1) \subseteq AllowList

----------------------------------------------------------------------------
(* C19: max_tokens and max_completion_tokens (SpecRequest) *)

\* The option f of call r
Given(r, f) == IF f \in DOMAIN args[r].options THEN args[r].options[f] ELSE Undefined

\* The body of the i-th fetch of call r has the field f
Sends(r, i, f) == f \in DOMAIN Body(r, i)

\* C19: on the first attempt to a local endpoint with no custom JSON, a defined
\* max_tokens is sent (as -1 when it is null or 0) without max_completion_tokens;
\* with max_tokens undefined, a max_completion_tokens that is defined and not
\* null, 0 or -1 is sent without max_tokens; otherwise neither is sent. No body of
\* the call, retries included, has both fields.
C19_MaxTokensPriority ==
    \A r \in Rid :
        Called(r) /\ ~HttpBase(r) /\ "custom" \notin DOMAIN args[r].options =>
            LET mt == Given(r, "max_tokens")
                mct == Given(r, "max_completion_tokens")
            IN /\ IF mt # Undefined
                  THEN /\ Sends(r, 1, "max_tokens") /\ ~Sends(r, 1, "max_completion_tokens")
                       /\ Body(r, 1).max_tokens = IF mt \in {Null, "0"} THEN "-1" ELSE mt
                  ELSE IF mct \notin {Undefined, Null, "0", "-1"}
                  THEN /\ Sends(r, 1, "max_completion_tokens") /\ ~Sends(r, 1, "max_tokens")
                       /\ Body(r, 1).max_completion_tokens = mct
                  ELSE ~Sends(r, 1, "max_tokens") /\ ~Sends(r, 1, "max_completion_tokens")
               /\ \A i \in DOMAIN sent[r] :
                      ~(Sends(r, i, "max_tokens") /\ Sends(r, i, "max_completion_tokens"))

\* Both options were given: max_tokens went out alone, and the retry after the 400
\* naming max_tokens sent its value as max_completion_tokens alone
C19_Witness ==
    \E r \in Rid :
        /\ Called(r) /\ ~HttpBase(r) /\ "custom" \notin DOMAIN args[r].options
        /\ Given(r, "max_tokens") = "100" /\ Given(r, "max_completion_tokens") = "50"
        /\ Len(sent[r]) = 2
        /\ Body(r, 1).max_tokens = "100" /\ ~Sends(r, 1, "max_completion_tokens")
        /\ Body(r, 2).max_completion_tokens = "100" /\ ~Sends(r, 2, "max_tokens")

----------------------------------------------------------------------------
(* SpecModel: one call, streamed or not, whose response names models *)

\* Payloads with a model at the top level (of a payload that is also the first
\* valid chunk), in the delta, in the message, blank, at the top level of a
\* payload without choices, and with none
ModelChunks ==
    {[ChunkA EXCEPT !.deltaModel = <<"d">>],
     [Chunk0 EXCEPT !.model = <<" ">>, !.deltaModel = <<"\f", "d">>, !.messageModel = <<"n">>],
     [Chunk0 EXCEPT !.messageModel = <<"n">>],
     [Chunk0 EXCEPT !.model = <<" ">>],
     [Chunk0 EXCEPT !.hasChoices = FALSE, !.model = <<"x">>],
     ChunkB}

ModelStreams == {DataLines(q) \o DoneLine : q \in SeqsUpTo(ModelChunks, MaxDeltas) \ {<<>>}}

ModelTexts == {[form |-> "json", data |-> c] : c \in ModelChunks}

NextModel ==
    \/ \E v \in {"true", "false"} : SendMessage("c1", <<UserHi>>, [stream |-> v], LocalCfg, 1)
    \/ \E r \in Rid :
           /\ pc[r] = "fetch"
           /\ \E resp \in Answers(r, ModelStreams, ModelTexts) : FetchResponds(r, resp)
    \/ \E r \in Rid, a \in 0..1 : ReadChunk(r, 3, a)
    \/ \E r \in Rid : ReadDone(r, 0)
    \/ \E r \in Rid : Unwind(r)
    \/ \E r \in Rid : BodyTextRead(r, 0)
    \/ \E r \in Rid : SettleReturned(r)

SpecModel == Init /\ [][NextModel]_vars

----------------------------------------------------------------------------
(* C20: onModel (SpecModel) *)

\* The first of the strings that is not blank, trimmed; <<>> when all are blank
RECURSIVE FirstNonBlank(_)
FirstNonBlank(strs) ==
    IF strs = <<>> THEN <<>>
    ELSE IF ~Blank(Head(strs)) THEN Trim(Head(strs))
    ELSE FirstNonBlank(Tail(strs))

\* The model a payload names: the top-level model, then the model of the delta
\* and of the message of its first choice
NamedModel(c) ==
    FirstNonBlank(IF c.hasChoices THEN <<c.model, c.deltaModel, c.messageModel>>
                  ELSE <<c.model>>)

\* The model named first by the response of call r: by the first payload of the
\* stream that names one, or by the body
FirstModel(r) ==
    IF Truthy(stream[r])
    THEN FirstNonBlank([i \in DOMAIN ChunksOf(r) |-> NamedModel(ChunksOf(r)[i])])
    ELSE IF response[r].text.form = "json" THEN NamedModel(response[r].text.data)
    ELSE <<>>

\* C20 as stated: every call, streamed or not, invokes onModel at most once, with
\* the first model its response names (top-level model, then delta model, then
\* message model, blank ones skipped); a call that ran to its end without abort
\* and whose response names a model has invoked it.
C20_Original ==
    \A r \in Rid :
        /\ Len(CallsOf(r, "onModel")) <= 1
        /\ HasCall(r, "onModel") => CallsOf(r, "onModel")[1].arg = FirstModel(r)
        /\ pc[r] \in {"unwind", "adopt", "done"} /\ ~aborted[r] /\ FirstModel(r) # <<>>
               => HasCall(r, "onModel")

----------------------------------------------------------------------------
(* SpecOpenThink: one streaming call whose content ends inside a think span *)

\* Content that opens a think span and never closes it: "A<think>BD", and
\* "<think>E</think>A<think>B" whose first span is closed
OpenContents ==
    {<<"A">> \o THINK_OPEN \o <<"B", "D">>,
     THINK_OPEN \o <<"E">> \o THINK_CLOSE \o <<"A">> \o THINK_OPEN \o <<"B">>}

\* The sets of at most k cut positions among 1..n
RECURSIVE CutsUpTo(_, _)
CutsUpTo(n, k) ==
    IF k = 0
    THEN {{}}
    ELSE CutsUpTo(n, k - 1) \cup {c \cup {a} : c \in CutsUpTo(n, k - 1), a \in 1..n}

\* Every content cut into at most MaxDeltas deltas, followed by `data: [DONE]`
OpenThinkStreams ==
    UNION {{ContentLines(Pieces(s, c, 1)) \o DoneLine : c \in CutsUpTo(Len(s) - 1, MaxDeltas - 1)} :
              s \in OpenContents}

NextOpenThink ==
    \/ SendMessage("c1", <<UserHi>>, [stream |-> "true"], LocalCfg, 1)
    \/ \E r \in Rid : pc[r] = "fetch" /\ \E w \in OpenThinkStreams : FetchResponds(r, OkStream(w))
    \/ \E r \in Rid : ReadChunk(r, 3, 0)
    \/ \E r \in Rid : ReadDone(r, 0)
    \/ \E r \in Rid : Unwind(r)

SpecOpenThink == Init /\ [][NextOpenThink]_vars

----------------------------------------------------------------------------
(* C21: a think span that is never closed (SpecOpenThink) *)

\* The characters of s
Chars(s) == {s[i] : i \in DOMAIN s}

\* The content deltas call r has read, concatenated
ContentRead(r) == Flatten([i \in DOMAIN ChunksOf(r) |-> ChunksOf(r)[i].content])

\* The text that follows the unclosed opening tag (the letters B and D stand
\* nowhere else in the contents) reached no callback of call r
AfterTagDropped(r) ==
    /\ \A i \in DOMAIN calls[r] :
           calls[r][i].cb \in {"onChunk", "onReasoningChunk"} =>
               Chars(calls[r][i].arg) \cap {"B", "D"} = {}
    /\ HasCall(r, "onComplete") =>
           /\ Chars(LastArg(r, "onComplete").content) \cap {"B", "D"} = {}
           /\ Chars(LastArg(r, "onComplete").reasoning) \cap {"B", "D"} = {}

\* C21 as stated: when the content holds <think> with no </think> after it and
\* the stream reaches `data: [DONE]`, the text after the opening tag reaches no
\* onChunk or onReasoningChunk call and no argument of onComplete.
C21_Original ==
    \A r \in Rid : pc[r] = "done" => AfterTagDropped(r)

----------------------------------------------------------------------------
(* C22: lines after `data: [DONE]` (SpecStream) *)

\* The callbacks call r invokes in the step
NewCalls(r) == {calls'[r][i].cb : i \in (Len(calls[r]) + 1)..Len(calls'[r])}

\* C22 as stated: once `data: [DONE]` has been processed (streamFinished is set),
\* no later line invokes onChunk, onReasoningChunk, onToolCallChunk or onModel or
\* changes the aggregated content, reasoning or tool calls.
C22_Original ==
    [][\A r \in Rid :
           dec[r].streamFinished /\ pc[r] = "read" =>
               /\ NewCalls(r) \cap {"onChunk", "onReasoningChunk", "onToolCallChunk",
                                     "onModel"} = {}
               /\ dec'[r].aggregatedContent = dec[r].aggregatedContent
               /\ dec'[r].fullReasoningContent = dec[r].fullReasoningContent
               /\ dec'[r].aggregatedToolCalls = dec[r].aggregatedToolCalls]_vars

----------------------------------------------------------------------------
(* SpecNoEnd: one streaming call whose reads deliver the body, on a transport
   that need not signal the end of the stream *)

NextNoEnd ==
    \/ \E c \in {Undefined, "c1"} : SendMessage(c, <<UserHi>>, [stream |-> "true"], LocalCfg, 1)
    \/ \E r \in Rid : pc[r] = "fetch" /\ \E w \in Streams : FetchResponds(r, OkStream(w))
    \/ \E r \in Rid, n \in 1..MaxRead : ReadChunk(r, n, 0)
    \/ \E r \in Rid : ReadDone(r, 0)
    \/ \E r \in Rid : Unwind(r)

\* What a resolved read does to the body still on the wire: `await reader.read()`
\* takes the next bytes the transport holds
ReadResolves ==
    \E r \in Rid, n \in 1..MaxRead :
        /\ pc[r] = "read" /\ n <= Len(wire[r])
        /\ wire' = [wire EXCEPT ![r] = SubSeq(wire[r], n + 1, Len(wire[r]))]

\* A pending read resolves while the body has bytes left, and the handler then
\* runs to its next read; nothing makes the transport end the stream
SpecNoEnd == Init /\ [][NextNoEnd]_vars /\ WF_wire(ReadResolves)

----------------------------------------------------------------------------
(* C23: completion after `data: [DONE]` (SpecNoEnd) *)

\* C23 as stated: once `data: [DONE]` has been processed for a call that is not
\* aborted, onComplete is eventually invoked, whether or not the transport
\* signals the end of the stream afterwards.
C23_Original ==
    \A r \in Rid :
        (dec[r].streamFinished /\ ~aborted[r]) ~> (HasCall(r, "onComplete") \/ aborted[r])

----------------------------------------------------------------------------
(* C24: the name of the error of a failed response (SpecRetry) *)

\* The name the error kinds give the error of a response with this status
NameFor(status) == IF status = 400 THEN "ServerError" ELSE "HttpError"

\* C24 as stated: a call whose last response failed surfaces an error named
\* ServerError when the status is 400 and HttpError otherwise, whatever the body
\* of the response is.
C24_Original ==
    \A r \in Rid :
        pc[r] = "done" /\ got[r] # <<>> /\ Failed(r, Len(got[r])) /\ ~aborted[r] =>
            /\ outcome[r].kind = "threw"
            /\ outcome[r].error.name = NameFor(got[r][Len(got[r])].status)
            /\ \A i \in DOMAIN calls[r] :
                   calls[r][i].cb = "onError" =>
                       calls[r][i].arg.name = NameFor(got[r][Len(got[r])].status)

----------------------------------------------------------------------------
(* C25: data lines whose payload is not JSON (SpecStream) *)

\* A `data: ` line whose payload is neither the terminator nor valid JSON
BadJsonLine(line) == IsDataLine(line) /\ ~IsDone(Tail(line)) /\ ~ParseOk(Tail(line))
NotBadJsonLine(line) == ~BadJsonLine(line)

\* The handler of call r run from its start over the complete lines it has read,
\* the lines with a bad payload left out
WithoutBadLines(r) ==
    ProcessLines(Run(Dec0(dec[r].startTime), <<>>, FALSE, 0, FALSE, now),
                 SelectSeq(CompleteLines(delivered[r]), NotBadJsonLine))

\* The aggregates, the think-tag state, the timings and the other locals of the
\* handler that do not hold a time
Kept(d) ==
    <<d.aggregatedContent, d.fullReasoningContent, d.aggregatedToolCalls, d.thinkBuffer,
      d.insideThinkTag, d.lastTimings, d.usageData, d.streamFinished, d.modelEmitted,
      d.firstValidChunkEmitted>>

\* The callbacks invoked while the lines were processed, with their arguments
IsLineCall(c) == c.cb # "onComplete"
LineCalls(cs) ==
    LET sel == SelectSeq(cs, IsLineCall) IN [i \in DOMAIN sel |-> <<sel[i].cb, sel[i].arg>>]

\* C25: for a streaming call that was not aborted and whose reads did not fail,
\* the callbacks invoked for the lines read so far and the handler's aggregates,
\* think-tag state and timings are those of the same lines with every `data: `
\* line of invalid JSON left out: such a line invokes no callback (onError
\* included), changes nothing and does not stop the stream.
C25_BadJsonLineIgnored ==
    \A r \in Rid :
        pc[r] \in {"read", "unwind", "done"} /\ Truthy(stream[r]) /\ delivered[r] # <<>>
        /\ ~aborted[r] /\ handler[r].kind # "threw" =>
            /\ LineCalls(calls[r]) = LineCalls(WithoutBadLines(r).calls)
            /\ Kept(dec[r]) = Kept(WithoutBadLines(r).d)

\* A call read a data line of invalid JSON, then a chunk whose content reached
\* onChunk, and completed
C25_Witness ==
    \E r \in Rid :
        /\ pc[r] = "done" /\ ~aborted[r] /\ HasCall(r, "onComplete")
        /\ \E i \in DOMAIN CompleteLines(delivered[r]) :
               /\ BadJsonLine(CompleteLines(delivered[r])[i])
               /\ \E j \in DOMAIN CompleteLines(delivered[r]) :
                      j > i /\ CompleteLines(delivered[r])[j] = <<Pre, [t |-> "json", v |-> ChunkA]>>
        /\ ConcatArgs(r, "onChunk") = <<"A", "B">>

----------------------------------------------------------------------------
(* C26: line buffering across reads (SpecStream) *)

\* The handler of call r run from its start over the text it has read, taken as
\* one read
InOneRead(r) ==
    ProcessLines(Run(Dec0(dec[r].startTime), <<>>, FALSE, 0, FALSE, now),
                 CompleteLines(delivered[r]))

\* C26: however the text read so far was cut into reads, a streaming call that
\* was not aborted has invoked the callbacks, and holds the aggregates, of that
\* text's complete lines processed once each in order, and buffers the text
\* after the last newline as the partial line.
C26_SameForEveryPartition ==
    \A r \in Rid :
        pc[r] \in {"read", "unwind", "done"} /\ Truthy(stream[r]) /\ delivered[r] # <<>>
        /\ ~aborted[r] /\ handler[r].kind # "threw" =>
            /\ LineCalls(calls[r]) = LineCalls(InOneRead(r).calls)
            /\ Kept(dec[r]) = Kept(InOneRead(r).d)
            /\ dec[r].chunk = PartialLine(delivered[r])

\* A read ended inside the second data line after the first was processed: the
\* start of the line is buffered and its chunk has reached no callback
C26_Witness ==
    \E r \in Rid :
        /\ pc[r] = "read" /\ ~aborted[r]
        /\ delivered[r] = DataLine(ChunkA) \o <<Pre, Json(ChunkB)>>
        /\ dec[r].chunk = <<Pre, Json(ChunkB)>>
        /\ ConcatArgs(r, "onChunk") = <<"A">>

----------------------------------------------------------------------------
(* SpecThinkText: one non-streaming call whose content holds think spans *)

\* The contents are made of at most MaxSpans pieces: a letter, a blank, and two
\* think spans, one of them with blanks around its body
MaxSpans == 3

Span(body) == THINK_OPEN \o body \o THINK_CLOSE

ThinkPieces == {<<"A">>, <<" ">>, Span(<<"E">>), Span(<<" ", "F", " ">>)}

ThinkTexts ==
    {[TextA EXCEPT !.data.content = Flatten(q)] : q \in SeqsUpTo(ThinkPieces, MaxSpans) \ {<<>>}}

NextThinkText ==
    \/ SendMessage("c1", <<UserHi>>, [stream |-> "false"], LocalCfg, 1)
    \/ \E r \in Rid : pc[r] = "fetch" /\ \E t \in ThinkTexts : FetchResponds(r, OkText(t))
    \/ \E r \in Rid : BodyTextRead(r, 0)
    \/ \E r \in Rid : SettleReturned(r)

SpecThinkText == Init /\ [][NextThinkText]_vars

----------------------------------------------------------------------------
(* C27: think spans of a non-streaming response (SpecThinkText) *)

\* The bodies of the spans, in order of appearance
SpanBodies(content) ==
    [k \in DOMAIN ThinkMatches(content) |-> StripTags(ThinkMatches(content)[k])]

\* C27 as stated: a non-streaming response with content and no explicit
\* reasoning completes with the content without its think spans and with the
\* span bodies joined by a blank line as reasoning, also when the content holds
\* nothing but think spans.
C27_Original ==
    \A r \in Rid :
        pc[r] = "done" /\ ~Truthy(stream[r]) /\ response[r].text.form = "json"
        /\ response[r].text.data.content # <<>> /\ ReasoningOf(response[r].text.data) = <<>> =>
            /\ HasCall(r, "onComplete")
            /\ LastArg(r, "onComplete").content = RemoveThink(response[r].text.data.content)
            /\ LastArg(r, "onComplete").reasoning = Join(SpanBodies(response[r].text.data.content))

----------------------------------------------------------------------------
(* C28: the registry entry of a call in flight (SpecSupersede) *)

\* C28 as stated: a call that is in flight and not aborted is the one the
\* registry holds under its key, also after a call it superseded has settled.
C28_Original ==
    \A r \in Rid : InFlight(r) /\ ~aborted[r] => abortControllers[key[r]] = r

----------------------------------------------------------------------------
(* C29: onError of a failing call (SpecRetry) *)

\* The arguments of the onError invocations of call r, in order
IsOnError(c) == c.cb = "onError"
ErrorsReported(r) ==
    LET sel == SelectSeq(calls[r], IsOnError) IN [i \in DOMAIN sel |-> sel[i].arg]

\* C29 as stated: a call that throws has invoked onError exactly once, with the
\* error it throws.
C29_Original ==
    \A r \in Rid : outcome[r].kind = "threw" => ErrorsReported(r) = <<outcome[r].error>>

----------------------------------------------------------------------------
(* C30: onComplete of a streaming call (SpecThink) *)

\* The streaming call r has completed: its handler returned without an abort
\* after its stream delivered `data: [DONE]`
Completed(r) ==
    /\ pc[r] \in {"unwind", "done"} /\ Truthy(stream[r]) /\ handler[r] = Resolved
    /\ dec[r].streamFinished /\ ~aborted[r]

\* C30: a streaming call that has completed invoked onComplete exactly once, as
\* its last callback, with the concatenation of the onChunk arguments as content
\* and the concatenation of the onReasoningChunk arguments as reasoning (empty,
\* which the caller receives as undefined, when there were none).
C30_CompleteAfterChunks ==
    \A r \in Rid :
        Completed(r) =>
            /\ Len(CallsOf(r, "onComplete")) = 1
            /\ calls[r][Len(calls[r])].cb = "onComplete"
            /\ LastArg(r, "onComplete").content = ConcatArgs(r, "onChunk")
            /\ LastArg(r, "onComplete").reasoning = ConcatArgs(r, "onReasoningChunk")

\* A call completed after content and reasoning were both reported
C30_Witness ==
    \E r \in Rid :
        /\ Completed(r)
        /\ ConcatArgs(r, "onReasoningChunk") = <<"B">>
        /\ Len(CallsOf(r, "onChunk")) >= 2
        /\ LastArg(r, "onComplete").content = ConcatArgs(r, "onChunk")

====
